---- MODULE Spec2Model ----
(***************************************************************************)
(* Verification model of the Aventurine League Tools codec layer:         *)
(* SKL / SKN / ANM readers and writers, the DDS <-> TEX translation and   *)
(* the DXT5 block codec.  Each subsystem has its own specification        *)
(* (SpecSkl, SpecSknW, ...) over its own variables; the variables of the  *)
(* other subsystems stay at their idle values.                            *)
(***************************************************************************)
EXTENDS Integers, Sequences, FiniteSets, TLC

VARIABLES
    \* ---- SKL writer / reader (io/export_skl.py, io/import_skl.py)
    sklPc,          \* position in write_skl / read_skl
    sklBones,       \* armature_obj.pose.bones: <<[name, parent, xf]>>
    sklFile,        \* bytes of the .skl file
    sklPos,         \* stream position (bs.tell())
    sklNameOffsets, \* name_offsets of write_skl
    sklTotalSize,   \* total_size of write_skl
    sklHdr,         \* header fields read by read_skl
    sklJoints,      \* joints list of read_skl, with the positions it used
    sklInfluences,  \* influences list of read_skl
    \* ---- SKN writer (io/export_skn.py write_skn_multi)
    sknwPc,          \* position in write_skn_multi
    sknwErr,         \* the exception raised, "none" while none
    sknwArmature,    \* whether armature_obj is given
    sknwSubmeshes,   \* len(submesh_data)
    sknwVertexCount, \* total_vertex_count
    sknwIndexCount,  \* total_index_count
    sknwDiskBefore,  \* the target file before the call: "absent" or "existing"
    sknwDisk,        \* the target file now
    \* ---- SKN reader (io/import_skn.py read_skn)
    sknrPc,          \* position in read_skn
    sknrIn,          \* what the file was built from: [major, idx, nverts]
    sknrFile,        \* bytes of the .skn file
    sknrPos,         \* stream position
    sknrHdr,         \* index_count, vertex_count, vertex_type, face loop counter
    sknrSubmeshes,   \* submeshes list
    sknrIndices,     \* indices list
    sknrVertices,    \* vertices list
    sknrAlloc,       \* how many SKNSubmesh and SKNVertex objects have been created
    \* ---- DDS -> TEX -> DDS (LtMAO/Ritoddstex.py dds2tex, tex_to_dds_bytes)
    ddsPc,           \* position in dds2tex / tex_to_dds_bytes
    ddsIn,           \* the .dds file: signature, header fields, payload
    ddsErr,          \* the exception raised, "none" while none
    ddsTex,          \* tex: format, mipmaps, data (list of byte strings)
    ddsCustom,       \* custom_rgba_format and rgba_indices
    ddsData,         \* dds_data: [none, bytes]
    ddsOut,          \* the payload tex_to_dds_bytes writes after its header
    \* ---- DXT5 block codec (LtMAO/Ritoddstex.py)
    blkPc,           \* "start", "encoded", "decoded", "decoded_short"
    blkPixels,       \* the encoder's texel list
    blkBytes,        \* the 16 bytes of the encoded block
    blkOut,          \* the decoder's 16 texels
    \* ---- ANM v4 writer / reader (io/export_anm.py, io/import_anm.py)
    anmPc,           \* position in write_anm / read_anm
    anmIn,           \* has_action, pose bones, frame_count, fps
    anmErr,          \* the exception raised, "none" while none
    anmLoop,         \* f_idx and the bone of the frame-collection loop
    anmPal,          \* vec_palette, vec_map, quat_palette, quat_map
    anmJointData,    \* joint_data: hash -> list of (t_id, s_id, r_id)
    anmFile,         \* bytes of the .anm file
    anmPos,          \* stream position
    anmOffsets,      \* quat_offset, frame_offset
    anmRead,         \* what read_anm has read
    anmLast,         \* t, s, r and the indices of the loop pass just made
    \* ---- compressed ANM reader (io/import_anm.py read_anm, 'r3d2canm')
    canmPc,          \* position in read_anm
    canmIn,          \* header fields of the file
    canmErr,         \* the exception raised, "none" while none
    canmI,           \* i of the loop over the compressed frames
    canmAnm,         \* anm: frame_count, tracks with their pose maps
    canmLast,        \* the frame entry read by the last pass of the loop
    \* ---- Hash.elf (utils/binary_utils.py)
    elfPc,           \* position in Hash.elf
    elfIn,           \* the name hashed
    elfOut,          \* the value returned and the accumulator h at the end of the loop
    \* ---- decompress_quat (io/import_anm.py)
    quatPc,          \* position in decompress_quat
    quatIn,          \* the six bytes given
    quatOut,         \* the quaternion returned, <<>> before the call
    \* ---- create_armature (io/import_skl.py)
    armPc,           \* position in create_armature
    armJoints,       \* the joints given
    armI,            \* i of the loop of pass 1
    armMats,         \* mats, one matrix per joint
    armGlobalPos,    \* joint.global_pos of every joint
    armBones,        \* the edit bones created
    \* ---- BinaryStream read primitives (utils/binary_utils.py)
    bsPc,            \* ready, or raised once a primitive has raised
    bsFile,          \* bytes of the file
    bsPos,           \* stream position
    bsLast,          \* the last primitive called and its outcome
    \* ---- recent-file history (utils/history.py)
    histSkn,         \* prefs.skn_history
    histAnm,         \* prefs.anm_history
    histFile,        \* the JSON history file
    histLoaded,      \* HISTORY_LOADED
    histLast,        \* the last operation: add (and whether it removed an entry), clear or draw
    histAdded,       \* per type, the distinct paths added, in order of their last add
    \* ---- compress_dds_bytes followed by decompress_dds_bytes of its result
    imgPc,           \* position in compress_dds_bytes / decompress_dds_bytes
    imgIn,           \* width and height of the image
    imgBlocks,       \* the blocks compressed so far, in file order
    imgReads,        \* offsets of the input buffer read so far
    imgDecoded,      \* number of blocks decompressed
    imgWrites,       \* writes to output_floats so far: offset and texel
    \* ---- the execute methods of the export operators
    opPc,            \* position in the operator's execute
    opIn,            \* the operator and its options
    opResult,        \* the result set returned
    opErr            \* the exception raised, "none" while none

sknwVars == <<sknwPc, sknwErr, sknwArmature, sknwSubmeshes, sknwVertexCount, sknwIndexCount,
              sknwDiskBefore, sknwDisk>>

sknrVars == <<sknrPc, sknrIn, sknrFile, sknrPos, sknrHdr, sknrSubmeshes, sknrIndices,
              sknrVertices, sknrAlloc>>

ddsVars == <<ddsPc, ddsIn, ddsErr, ddsTex, ddsCustom, ddsData, ddsOut>>

sklVars == <<sklPc, sklBones, sklFile, sklPos, sklNameOffsets, sklTotalSize, sklHdr,
             sklJoints, sklInfluences>>

blkVars == <<blkPc, blkPixels, blkBytes, blkOut>>

anmVars == <<anmPc, anmIn, anmErr, anmLoop, anmPal, anmJointData, anmFile, anmPos,
             anmOffsets, anmRead, anmLast>>

canmVars == <<canmPc, canmIn, canmErr, canmI, canmAnm, canmLast>>

elfVars == <<elfPc, elfIn, elfOut>>

quatVars == <<quatPc, quatIn, quatOut>>

armVars == <<armPc, armJoints, armI, armMats, armGlobalPos, armBones>>

bsVars == <<bsPc, bsFile, bsPos, bsLast>>

histVars == <<histSkn, histAnm, histFile, histLoaded, histLast, histAdded>>

imgVars == <<imgPc, imgIn, imgBlocks, imgReads, imgDecoded, imgWrites>>

opVars == <<opPc, opIn, opResult, opErr>>

vars == <<sklVars, sknwVars, sknrVars, ddsVars, blkVars, anmVars, canmVars, elfVars, quatVars, armVars, bsVars, histVars, imgVars, opVars>>

\* the variables of the other subsystems, which a subsystem's actions leave alone
sklOthers  == <<sknwVars, sknrVars, ddsVars, blkVars, anmVars, canmVars, elfVars, quatVars, armVars, bsVars, histVars, imgVars, opVars>>
sknwOthers == <<sklVars, sknrVars, ddsVars, blkVars, anmVars, canmVars, elfVars, quatVars, armVars, bsVars, histVars, imgVars, opVars>>
sknrOthers == <<sklVars, sknwVars, ddsVars, blkVars, anmVars, canmVars, elfVars, quatVars, armVars, bsVars, histVars, imgVars, opVars>>
ddsOthers  == <<sklVars, sknwVars, sknrVars, blkVars, anmVars, canmVars, elfVars, quatVars, armVars, bsVars, histVars, imgVars, opVars>>
anmOthers  == <<sklVars, sknwVars, sknrVars, ddsVars, blkVars, canmVars, elfVars, quatVars, armVars, bsVars, histVars, imgVars, opVars>>
canmOthers == <<sklVars, sknwVars, sknrVars, ddsVars, blkVars, anmVars, elfVars, quatVars, armVars, bsVars, histVars, imgVars, opVars>>
blkOthers  == <<sklVars, sknwVars, sknrVars, ddsVars, anmVars, canmVars, elfVars, quatVars, armVars, bsVars, histVars, imgVars, opVars>>
elfOthers  == <<sklVars, sknwVars, sknrVars, ddsVars, blkVars, anmVars, canmVars, quatVars, armVars, bsVars, histVars, imgVars, opVars>>
quatOthers == <<sklVars, sknwVars, sknrVars, ddsVars, blkVars, anmVars, canmVars, elfVars, armVars, bsVars, histVars, imgVars, opVars>>
armOthers  == <<sklVars, sknwVars, sknrVars, ddsVars, blkVars, anmVars, canmVars, elfVars, quatVars, bsVars, histVars, imgVars, opVars>>
bsOthers   == <<sklVars, sknwVars, sknrVars, ddsVars, blkVars, anmVars, canmVars, elfVars, quatVars, armVars, histVars, imgVars, opVars>>
histOthers == <<sklVars, sknwVars, sknrVars, ddsVars, blkVars, anmVars, canmVars, elfVars, quatVars, armVars, bsVars, imgVars, opVars>>
imgOthers  == <<sklVars, sknwVars, sknrVars, ddsVars, blkVars, anmVars, canmVars, elfVars, quatVars, armVars, bsVars, histVars, opVars>>
opOthers   == <<sklVars, sknwVars, sknrVars, ddsVars, blkVars, anmVars, canmVars, elfVars, quatVars, armVars, bsVars, histVars, imgVars>>

(***************************************************************************)
(* Bounds of the model.                                                    *)
(***************************************************************************)
MaxBones == 2
\* submeshes collected by one write_skn_multi call
MaxSubmeshes == 33
\* u16 entries in the index section of a .skn file read by read_skn
MaxIndices == 6
\* largest dwWidth / dwHeight and dwMipMapCount of a .dds header given to dds2tex
MaxDdsDim == 4
MaxDdsMips == 4
\* largest value of a colour channel
MaxChannel == 255
\* pose bones and frames of an armature given to write_anm
MaxAnmBones == 2
MaxAnmFrames == 2
\* entries of a compressed .anm file, and its max_time in half seconds
MaxCanmEntries == 2
MaxTimeHalves == 3
\* characters of a name given to Hash.elf
MaxNameLen == 3
\* joints given to create_armature
MaxJoints == 3
\* bytes of a file read through BinaryStream
MaxFileLen == 4
\* width and height of an image given to compress_dds_bytes
MaxImgDim == 6
\* utils/history.py line 109: entries kept per list
HistoryCap == 5

(***************************************************************************)
(* Generic helpers.                                                        *)
(***************************************************************************)
Max(a, b) == IF a >= b THEN a ELSE b
Min(a, b) == IF a <= b THEN a ELSE b

RECURSIVE Pow2(_)
Pow2(n) == IF n = 0 THEN 1 ELSE 2 * Pow2(n - 1)

RECURSIVE BitXor(_, _)
BitXor(a, b) ==
    IF a = 0 THEN b
    ELSE IF b = 0 THEN a
    ELSE (((a % 2) + (b % 2)) % 2) + 2 * BitXor(a \div 2, b \div 2)

RECURSIVE Concat(_)
Concat(ss) == IF ss = <<>> THEN <<>> ELSE Head(ss) \o Concat(Tail(ss))

Zeros(n) == [k \in 1..n |-> 0]

(***************************************************************************)
(* BinaryStream over a Python file object opened 'wb' / 'rb'.              *)
(* A file is a sequence of bytes; positions are 0-based byte offsets.      *)
(***************************************************************************)
\* struct.pack('<H', v): two bytes, low byte first
U16LE(v) == <<v % 256, (v \div 256) % 256>>
\* struct.pack('<h', v): two's complement of v in 16 bits
I16LE(v) == U16LE((v + 65536) % 65536)
\* struct.pack('<I', v) for v < 2^31
U32LE(v) == <<v % 256, (v \div 256) % 256, (v \div 65536) % 256, (v \div 16777216) % 256>>
\* struct.pack('<i', v): two's complement of v in 32 bits
I32LE(v) ==
    IF v >= 0 THEN U32LE(v)
    ELSE LET m == -(v + 1)      \* bytes of v are the complemented bytes of -v-1
         IN  <<255 - (m % 256), 255 - ((m \div 256) % 256),
               255 - ((m \div 65536) % 256), 255 - ((m \div 16777216) % 256)>>

\* stream.write(bytes) at position pos: a gap left by seek is zero-filled,
\* existing bytes are overwritten, the file grows as needed
WriteAt(f, pos, bytes) ==
    LET padded == IF pos > Len(f) THEN f \o Zeros(pos - Len(f)) ELSE f
        n == Max(Len(padded), pos + Len(bytes))
    IN  [k \in 1..n |-> IF k > pos /\ k <= pos + Len(bytes) THEN bytes[k - pos]
                        ELSE padded[k]]

\* stream.read(n) at position pos: at most n bytes, fewer at end of file
ReadAt(f, pos, n) ==
    IF pos >= Len(f) THEN <<>>
    ELSE SubSeq(f, pos + 1, Min(Len(f), pos + n))

\* struct.unpack('H', b)[0] for a 2-byte read; -1 stands for struct.error
DecU16(b) == IF Len(b) = 2 THEN b[1] + 256 * b[2] ELSE -1
\* struct.unpack('h', b)[0]
DecI16(b) == LET u == b[1] + 256 * b[2] IN IF u >= 32768 THEN u - 65536 ELSE u
\* struct.unpack('i', b)[0]
DecI32(b) ==
    IF b[4] >= 128
    THEN -((255 - b[1]) + 256 * (255 - b[2]) + 65536 * (255 - b[3])
           + 16777216 * (255 - b[4])) - 1
    ELSE b[1] + 256 * b[2] + 65536 * b[3] + 16777216 * b[4]
\* struct.unpack('I', b)[0] when the value is below 2^31
DecU32(b) == b[1] + 256 * b[2] + 65536 * b[3] + 16777216 * b[4]

\* BinaryStream.read_char_until_zero: the bytes from pos up to a zero byte or
\* the end of the file
RECURSIVE ReadCharUntilZero(_, _)
ReadCharUntilZero(f, pos) ==
    IF pos >= Len(f) \/ f[pos + 1] = 0 THEN <<>>
    ELSE <<f[pos + 1]>> \o ReadCharUntilZero(f, pos + 1)

(***************************************************************************)
(* Hash.elf.  The Python accumulator h is unbounded; it is kept here as    *)
(* [hi, lo] with h = hi * 2^32 + lo, lo < 2^32 held as top nibble (bits    *)
(* 28..31) and the 28 bits below it.                                       *)
(***************************************************************************)
\* the simple lower-case mappings of the Unicode database str.lower() uses, as
\* <<first, last, step, delta>>: code point c of a run maps to c + delta
LowerRuns ==
    { <<65, 90, 1, 32>>, <<192, 214, 1, 32>>, <<216, 222, 1, 32>>, <<256, 302, 2, 1>>,
      <<306, 310, 2, 1>>, <<313, 327, 2, 1>>, <<330, 374, 2, 1>>, <<376, 376, 1, -121>>,
      <<377, 381, 2, 1>>, <<385, 385, 1, 210>>, <<386, 388, 2, 1>>, <<390, 390, 1, 206>>,
      <<391, 391, 1, 1>>, <<393, 394, 1, 205>>, <<395, 395, 1, 1>>, <<398, 398, 1, 79>>,
      <<399, 399, 1, 202>>, <<400, 400, 1, 203>>, <<401, 401, 1, 1>>, <<403, 403, 1, 205>>,
      <<404, 404, 1, 207>>, <<406, 406, 1, 211>>, <<407, 407, 1, 209>>, <<408, 408, 1, 1>>,
      <<412, 412, 1, 211>>, <<413, 413, 1, 213>>, <<415, 415, 1, 214>>, <<416, 420, 2, 1>>,
      <<422, 422, 1, 218>>, <<423, 423, 1, 1>>, <<425, 425, 1, 218>>, <<428, 428, 1, 1>>,
      <<430, 430, 1, 218>>, <<431, 431, 1, 1>>, <<433, 434, 1, 217>>, <<435, 437, 2, 1>>,
      <<439, 439, 1, 219>>, <<440, 440, 1, 1>>, <<444, 444, 1, 1>>, <<452, 452, 1, 2>>,
      <<453, 453, 1, 1>>, <<455, 455, 1, 2>>, <<456, 456, 1, 1>>, <<458, 458, 1, 2>>,
      <<459, 475, 2, 1>>, <<478, 494, 2, 1>>, <<497, 497, 1, 2>>, <<498, 500, 2, 1>>,
      <<502, 502, 1, -97>>, <<503, 503, 1, -56>>, <<504, 542, 2, 1>>, <<544, 544, 1, -130>>,
      <<546, 562, 2, 1>>, <<570, 570, 1, 10795>>, <<571, 571, 1, 1>>, <<573, 573, 1, -163>>,
      <<574, 574, 1, 10792>>, <<577, 577, 1, 1>>, <<579, 579, 1, -195>>, <<580, 580, 1, 69>>,
      <<581, 581, 1, 71>>, <<582, 590, 2, 1>>, <<880, 882, 2, 1>>, <<886, 886, 1, 1>>,
      <<895, 895, 1, 116>>, <<902, 902, 1, 38>>, <<904, 906, 1, 37>>, <<908, 908, 1, 64>>,
      <<910, 911, 1, 63>>, <<913, 929, 1, 32>>, <<931, 939, 1, 32>>, <<975, 975, 1, 8>>,
      <<984, 1006, 2, 1>>, <<1012, 1012, 1, -60>>, <<1015, 1015, 1, 1>>, <<1017, 1017, 1, -7>>,
      <<1018, 1018, 1, 1>>, <<1021, 1023, 1, -130>>, <<1024, 1039, 1, 80>>,
      <<1040, 1071, 1, 32>>, <<1120, 1152, 2, 1>>, <<1162, 1214, 2, 1>>, <<1216, 1216, 1, 15>>,
      <<1217, 1229, 2, 1>>, <<1232, 1326, 2, 1>>, <<1329, 1366, 1, 48>>,
      <<4256, 4293, 1, 7264>>, <<4295, 4295, 1, 7264>>, <<4301, 4301, 1, 7264>>,
      <<5024, 5103, 1, 38864>>, <<5104, 5109, 1, 8>>, <<7312, 7354, 1, -3008>>,
      <<7357, 7359, 1, -3008>>, <<7680, 7828, 2, 1>>, <<7838, 7838, 1, -7615>>,
      <<7840, 7934, 2, 1>>, <<7944, 7951, 1, -8>>, <<7960, 7965, 1, -8>>,
      <<7976, 7983, 1, -8>>, <<7992, 7999, 1, -8>>, <<8008, 8013, 1, -8>>,
      <<8025, 8031, 2, -8>>, <<8040, 8047, 1, -8>>, <<8072, 8079, 1, -8>>,
      <<8088, 8095, 1, -8>>, <<8104, 8111, 1, -8>>, <<8120, 8121, 1, -8>>,
      <<8122, 8123, 1, -74>>, <<8124, 8124, 1, -9>>, <<8136, 8139, 1, -86>>,
      <<8140, 8140, 1, -9>>, <<8152, 8153, 1, -8>>, <<8154, 8155, 1, -100>>,
      <<8168, 8169, 1, -8>>, <<8170, 8171, 1, -112>>, <<8172, 8172, 1, -7>>,
      <<8184, 8185, 1, -128>>, <<8186, 8187, 1, -126>>, <<8188, 8188, 1, -9>>,
      <<8486, 8486, 1, -7517>>, <<8490, 8490, 1, -8383>>, <<8491, 8491, 1, -8262>>,
      <<8498, 8498, 1, 28>>, <<8544, 8559, 1, 16>>, <<8579, 8579, 1, 1>>,
      <<9398, 9423, 1, 26>>, <<11264, 11311, 1, 48>>, <<11360, 11360, 1, 1>>,
      <<11362, 11362, 1, -10743>>, <<11363, 11363, 1, -3814>>, <<11364, 11364, 1, -10727>>,
      <<11367, 11371, 2, 1>>, <<11373, 11373, 1, -10780>>, <<11374, 11374, 1, -10749>>,
      <<11375, 11375, 1, -10783>>, <<11376, 11376, 1, -10782>>, <<11378, 11378, 1, 1>>,
      <<11381, 11381, 1, 1>>, <<11390, 11391, 1, -10815>>, <<11392, 11490, 2, 1>>,
      <<11499, 11501, 2, 1>>, <<11506, 11506, 1, 1>>, <<42560, 42604, 2, 1>>,
      <<42624, 42650, 2, 1>>, <<42786, 42798, 2, 1>>, <<42802, 42862, 2, 1>>,
      <<42873, 42875, 2, 1>>, <<42877, 42877, 1, -35332>>, <<42878, 42886, 2, 1>>,
      <<42891, 42891, 1, 1>>, <<42893, 42893, 1, -42280>>, <<42896, 42898, 2, 1>>,
      <<42902, 42920, 2, 1>>, <<42922, 42922, 1, -42308>>, <<42923, 42923, 1, -42319>>,
      <<42924, 42924, 1, -42315>>, <<42925, 42925, 1, -42305>>, <<42926, 42926, 1, -42308>>,
      <<42928, 42928, 1, -42258>>, <<42929, 42929, 1, -42282>>, <<42930, 42930, 1, -42261>>,
      <<42931, 42931, 1, 928>>, <<42932, 42946, 2, 1>>, <<42948, 42948, 1, -48>>,
      <<42949, 42949, 1, -42307>>, <<42950, 42950, 1, -35384>>, <<42951, 42953, 2, 1>>,
      <<42960, 42960, 1, 1>>, <<42966, 42968, 2, 1>>, <<42997, 42997, 1, 1>>,
      <<65313, 65338, 1, 32>>, <<66560, 66599, 1, 40>>, <<66736, 66771, 1, 40>>,
      <<66928, 66964, 2, 39>>, <<66929, 66937, 2, 39>>, <<66941, 66953, 2, 39>>,
      <<66957, 66961, 2, 39>>, <<66965, 66965, 1, 39>>, <<68736, 68786, 1, 64>>,
      <<71840, 71871, 1, 32>>, <<93760, 93791, 1, 32>>, <<125184, 125217, 1, 34>> }

\* the code points with the Case_Ignorable property, as <<first, last>>
CaseIgnorableRanges ==
    { <<39, 39>>, <<46, 46>>, <<58, 58>>, <<94, 94>>, <<96, 96>>, <<168, 168>>, <<173, 173>>,
      <<175, 175>>, <<180, 180>>, <<183, 184>>, <<688, 879>>, <<884, 885>>, <<890, 890>>,
      <<900, 901>>, <<903, 903>>, <<1155, 1161>>, <<1369, 1369>>, <<1375, 1375>>,
      <<1425, 1469>>, <<1471, 1471>>, <<1473, 1474>>, <<1476, 1477>>, <<1479, 1479>>,
      <<1524, 1524>>, <<1536, 1541>>, <<1552, 1562>>, <<1564, 1564>>, <<1600, 1600>>,
      <<1611, 1631>>, <<1648, 1648>>, <<1750, 1757>>, <<1759, 1768>>, <<1770, 1773>>,
      <<1807, 1807>>, <<1809, 1809>>, <<1840, 1866>>, <<1958, 1968>>, <<2027, 2037>>,
      <<2042, 2042>>, <<2045, 2045>>, <<2070, 2093>>, <<2137, 2139>>, <<2184, 2184>>,
      <<2192, 2193>>, <<2200, 2207>>, <<2249, 2306>>, <<2362, 2362>>, <<2364, 2364>>,
      <<2369, 2376>>, <<2381, 2381>>, <<2385, 2391>>, <<2402, 2403>>, <<2417, 2417>>,
      <<2433, 2433>>, <<2492, 2492>>, <<2497, 2500>>, <<2509, 2509>>, <<2530, 2531>>,
      <<2558, 2558>>, <<2561, 2562>>, <<2620, 2620>>, <<2625, 2626>>, <<2631, 2632>>,
      <<2635, 2637>>, <<2641, 2641>>, <<2672, 2673>>, <<2677, 2677>>, <<2689, 2690>>,
      <<2748, 2748>>, <<2753, 2757>>, <<2759, 2760>>, <<2765, 2765>>, <<2786, 2787>>,
      <<2810, 2815>>, <<2817, 2817>>, <<2876, 2876>>, <<2879, 2879>>, <<2881, 2884>>,
      <<2893, 2893>>, <<2901, 2902>>, <<2914, 2915>>, <<2946, 2946>>, <<3008, 3008>>,
      <<3021, 3021>>, <<3072, 3072>>, <<3076, 3076>>, <<3132, 3132>>, <<3134, 3136>>,
      <<3142, 3144>>, <<3146, 3149>>, <<3157, 3158>>, <<3170, 3171>>, <<3201, 3201>>,
      <<3260, 3260>>, <<3263, 3263>>, <<3270, 3270>>, <<3276, 3277>>, <<3298, 3299>>,
      <<3328, 3329>>, <<3387, 3388>>, <<3393, 3396>>, <<3405, 3405>>, <<3426, 3427>>,
      <<3457, 3457>>, <<3530, 3530>>, <<3538, 3540>>, <<3542, 3542>>, <<3633, 3633>>,
      <<3636, 3642>>, <<3654, 3662>>, <<3761, 3761>>, <<3764, 3772>>, <<3782, 3782>>,
      <<3784, 3789>>, <<3864, 3865>>, <<3893, 3893>>, <<3895, 3895>>, <<3897, 3897>>,
      <<3953, 3966>>, <<3968, 3972>>, <<3974, 3975>>, <<3981, 3991>>, <<3993, 4028>>,
      <<4038, 4038>>, <<4141, 4144>>, <<4146, 4151>>, <<4153, 4154>>, <<4157, 4158>>,
      <<4184, 4185>>, <<4190, 4192>>, <<4209, 4212>>, <<4226, 4226>>, <<4229, 4230>>,
      <<4237, 4237>>, <<4253, 4253>>, <<4348, 4348>>, <<4957, 4959>>, <<5906, 5908>>,
      <<5938, 5939>>, <<5970, 5971>>, <<6002, 6003>>, <<6068, 6069>>, <<6071, 6077>>,
      <<6086, 6086>>, <<6089, 6099>>, <<6103, 6103>>, <<6109, 6109>>, <<6155, 6159>>,
      <<6211, 6211>>, <<6277, 6278>>, <<6313, 6313>>, <<6432, 6434>>, <<6439, 6440>>,
      <<6450, 6450>>, <<6457, 6459>>, <<6679, 6680>>, <<6683, 6683>>, <<6742, 6742>>,
      <<6744, 6750>>, <<6752, 6752>>, <<6754, 6754>>, <<6757, 6764>>, <<6771, 6780>>,
      <<6783, 6783>>, <<6823, 6823>>, <<6832, 6862>>, <<6912, 6915>>, <<6964, 6964>>,
      <<6966, 6970>>, <<6972, 6972>>, <<6978, 6978>>, <<7019, 7027>>, <<7040, 7041>>,
      <<7074, 7077>>, <<7080, 7081>>, <<7083, 7085>>, <<7142, 7142>>, <<7144, 7145>>,
      <<7149, 7149>>, <<7151, 7153>>, <<7212, 7219>>, <<7222, 7223>>, <<7288, 7293>>,
      <<7376, 7378>>, <<7380, 7392>>, <<7394, 7400>>, <<7405, 7405>>, <<7412, 7412>>,
      <<7416, 7417>>, <<7468, 7530>>, <<7544, 7544>>, <<7579, 7679>>, <<8125, 8125>>,
      <<8127, 8129>>, <<8141, 8143>>, <<8157, 8159>>, <<8173, 8175>>, <<8189, 8190>>,
      <<8203, 8207>>, <<8216, 8217>>, <<8228, 8228>>, <<8231, 8231>>, <<8234, 8238>>,
      <<8288, 8292>>, <<8294, 8303>>, <<8305, 8305>>, <<8319, 8319>>, <<8336, 8348>>,
      <<8400, 8432>>, <<11388, 11389>>, <<11503, 11505>>, <<11631, 11631>>, <<11647, 11647>>,
      <<11744, 11775>>, <<11823, 11823>>, <<12293, 12293>>, <<12330, 12333>>, <<12337, 12341>>,
      <<12347, 12347>>, <<12441, 12446>>, <<12540, 12542>>, <<40981, 40981>>, <<42232, 42237>>,
      <<42508, 42508>>, <<42607, 42610>>, <<42612, 42621>>, <<42623, 42623>>, <<42652, 42655>>,
      <<42736, 42737>>, <<42752, 42785>>, <<42864, 42864>>, <<42888, 42890>>, <<42994, 42996>>,
      <<43000, 43001>>, <<43010, 43010>>, <<43014, 43014>>, <<43019, 43019>>, <<43045, 43046>>,
      <<43052, 43052>>, <<43204, 43205>>, <<43232, 43249>>, <<43263, 43263>>, <<43302, 43309>>,
      <<43335, 43345>>, <<43392, 43394>>, <<43443, 43443>>, <<43446, 43449>>, <<43452, 43453>>,
      <<43471, 43471>>, <<43493, 43494>>, <<43561, 43566>>, <<43569, 43570>>, <<43573, 43574>>,
      <<43587, 43587>>, <<43596, 43596>>, <<43632, 43632>>, <<43644, 43644>>, <<43696, 43696>>,
      <<43698, 43700>>, <<43703, 43704>>, <<43710, 43711>>, <<43713, 43713>>, <<43741, 43741>>,
      <<43756, 43757>>, <<43763, 43764>>, <<43766, 43766>>, <<43867, 43871>>, <<43881, 43883>>,
      <<44005, 44005>>, <<44008, 44008>>, <<44013, 44013>>, <<64286, 64286>>, <<64434, 64450>>,
      <<65024, 65039>>, <<65043, 65043>>, <<65056, 65071>>, <<65106, 65106>>, <<65109, 65109>>,
      <<65279, 65279>>, <<65287, 65287>>, <<65294, 65294>>, <<65306, 65306>>, <<65342, 65342>>,
      <<65344, 65344>>, <<65392, 65392>>, <<65438, 65439>>, <<65507, 65507>>, <<65529, 65531>>,
      <<66045, 66045>>, <<66272, 66272>>, <<66422, 66426>>, <<67456, 67461>>, <<67463, 67504>>,
      <<67506, 67514>>, <<68097, 68099>>, <<68101, 68102>>, <<68108, 68111>>, <<68152, 68154>>,
      <<68159, 68159>>, <<68325, 68326>>, <<68900, 68903>>, <<69291, 69292>>, <<69446, 69456>>,
      <<69506, 69509>>, <<69633, 69633>>, <<69688, 69702>>, <<69744, 69744>>, <<69747, 69748>>,
      <<69759, 69761>>, <<69811, 69814>>, <<69817, 69818>>, <<69821, 69821>>, <<69826, 69826>>,
      <<69837, 69837>>, <<69888, 69890>>, <<69927, 69931>>, <<69933, 69940>>, <<70003, 70003>>,
      <<70016, 70017>>, <<70070, 70078>>, <<70089, 70092>>, <<70095, 70095>>, <<70191, 70193>>,
      <<70196, 70196>>, <<70198, 70199>>, <<70206, 70206>>, <<70367, 70367>>, <<70371, 70378>>,
      <<70400, 70401>>, <<70459, 70460>>, <<70464, 70464>>, <<70502, 70508>>, <<70512, 70516>>,
      <<70712, 70719>>, <<70722, 70724>>, <<70726, 70726>>, <<70750, 70750>>, <<70835, 70840>>,
      <<70842, 70842>>, <<70847, 70848>>, <<70850, 70851>>, <<71090, 71093>>, <<71100, 71101>>,
      <<71103, 71104>>, <<71132, 71133>>, <<71219, 71226>>, <<71229, 71229>>, <<71231, 71232>>,
      <<71339, 71339>>, <<71341, 71341>>, <<71344, 71349>>, <<71351, 71351>>, <<71453, 71455>>,
      <<71458, 71461>>, <<71463, 71467>>, <<71727, 71735>>, <<71737, 71738>>, <<71995, 71996>>,
      <<71998, 71998>>, <<72003, 72003>>, <<72148, 72151>>, <<72154, 72155>>, <<72160, 72160>>,
      <<72193, 72202>>, <<72243, 72248>>, <<72251, 72254>>, <<72263, 72263>>, <<72273, 72278>>,
      <<72281, 72283>>, <<72330, 72342>>, <<72344, 72345>>, <<72752, 72758>>, <<72760, 72765>>,
      <<72767, 72767>>, <<72850, 72871>>, <<72874, 72880>>, <<72882, 72883>>, <<72885, 72886>>,
      <<73009, 73014>>, <<73018, 73018>>, <<73020, 73021>>, <<73023, 73029>>, <<73031, 73031>>,
      <<73104, 73105>>, <<73109, 73109>>, <<73111, 73111>>, <<73459, 73460>>, <<78896, 78904>>,
      <<92912, 92916>>, <<92976, 92982>>, <<92992, 92995>>, <<94031, 94031>>, <<94095, 94111>>,
      <<94176, 94177>>, <<94179, 94180>>, <<110576, 110579>>, <<110581, 110587>>,
      <<110589, 110590>>, <<113821, 113822>>, <<113824, 113827>>, <<118528, 118573>>,
      <<118576, 118598>>, <<119143, 119145>>, <<119155, 119170>>, <<119173, 119179>>,
      <<119210, 119213>>, <<119362, 119364>>, <<121344, 121398>>, <<121403, 121452>>,
      <<121461, 121461>>, <<121476, 121476>>, <<121499, 121503>>, <<121505, 121519>>,
      <<122880, 122886>>, <<122888, 122904>>, <<122907, 122913>>, <<122915, 122916>>,
      <<122918, 122922>>, <<123184, 123197>>, <<123566, 123566>>, <<123628, 123631>>,
      <<125136, 125142>>, <<125252, 125259>>, <<127995, 127999>>, <<917505, 917505>>,
      <<917536, 917631>>, <<917760, 917999>> }

\* <<first, last>> ranges holding every code point with the Cased property
\* that is not Case_Ignorable, and no other that is not Case_Ignorable
CasedRanges ==
    { <<65, 90>>, <<97, 122>>, <<170, 170>>, <<181, 181>>, <<186, 186>>, <<192, 214>>,
      <<216, 246>>, <<248, 442>>, <<444, 447>>, <<452, 659>>, <<661, 887>>, <<891, 893>>,
      <<895, 895>>, <<902, 906>>, <<908, 908>>, <<910, 929>>, <<931, 1013>>, <<1015, 1153>>,
      <<1162, 1327>>, <<1329, 1366>>, <<1376, 1416>>, <<4256, 4293>>, <<4295, 4295>>,
      <<4301, 4301>>, <<4304, 4346>>, <<4349, 4351>>, <<5024, 5109>>, <<5112, 5117>>,
      <<7296, 7304>>, <<7312, 7354>>, <<7357, 7359>>, <<7424, 7957>>, <<7960, 7965>>,
      <<7968, 8005>>, <<8008, 8013>>, <<8016, 8023>>, <<8025, 8025>>, <<8027, 8027>>,
      <<8029, 8029>>, <<8031, 8061>>, <<8064, 8116>>, <<8118, 8132>>, <<8134, 8147>>,
      <<8150, 8155>>, <<8160, 8172>>, <<8178, 8180>>, <<8182, 8188>>, <<8450, 8450>>,
      <<8455, 8455>>, <<8458, 8467>>, <<8469, 8469>>, <<8473, 8477>>, <<8484, 8484>>,
      <<8486, 8486>>, <<8488, 8488>>, <<8490, 8493>>, <<8495, 8500>>, <<8505, 8505>>,
      <<8508, 8511>>, <<8517, 8521>>, <<8526, 8526>>, <<8544, 8575>>, <<8579, 8580>>,
      <<9398, 9449>>, <<11264, 11492>>, <<11499, 11507>>, <<11520, 11557>>, <<11559, 11559>>,
      <<11565, 11565>>, <<42560, 42605>>, <<42624, 42651>>, <<42786, 42894>>, <<42896, 42954>>,
      <<42960, 42961>>, <<42963, 42963>>, <<42965, 42969>>, <<42997, 42998>>, <<43002, 43002>>,
      <<43824, 43880>>, <<43888, 43967>>, <<64256, 64262>>, <<64275, 64279>>, <<65313, 65338>>,
      <<65345, 65370>>, <<66560, 66639>>, <<66736, 66771>>, <<66776, 66811>>, <<66928, 66938>>,
      <<66940, 66954>>, <<66956, 66962>>, <<66964, 66965>>, <<66967, 66977>>, <<66979, 66993>>,
      <<66995, 67001>>, <<67003, 67004>>, <<68736, 68786>>, <<68800, 68850>>, <<71840, 71903>>,
      <<93760, 93823>>, <<119808, 119892>>, <<119894, 119964>>, <<119966, 119967>>,
      <<119970, 119970>>, <<119973, 119974>>, <<119977, 119980>>, <<119982, 119993>>,
      <<119995, 119995>>, <<119997, 120003>>, <<120005, 120069>>, <<120071, 120074>>,
      <<120077, 120084>>, <<120086, 120092>>, <<120094, 120121>>, <<120123, 120126>>,
      <<120128, 120132>>, <<120134, 120134>>, <<120138, 120144>>, <<120146, 120485>>,
      <<120488, 120512>>, <<120514, 120538>>, <<120540, 120570>>, <<120572, 120596>>,
      <<120598, 120628>>, <<120630, 120654>>, <<120656, 120686>>, <<120688, 120712>>,
      <<120714, 120744>>, <<120746, 120770>>, <<120772, 120779>>, <<122624, 122633>>,
      <<122635, 122654>>, <<125184, 125251>>, <<127280, 127305>>, <<127312, 127337>>,
      <<127344, 127369>> }

InRun(c, r) == c >= r[1] /\ c <= r[2] /\ (c - r[1]) % r[3] = 0
InRange(c, r) == c >= r[1] /\ c <= r[2]

\* the distance from a code point to its simple lower-case mapping, 0 when
\* it has none
LowerDelta(c) ==
    IF \E r \in LowerRuns : InRun(c, r)
    THEN (CHOOSE r \in LowerRuns : InRun(c, r))[4]
    ELSE 0

CaseIgnorable(c) == \E r \in CaseIgnorableRanges : InRange(c, r)
Cased(c) == \E r \in CasedRanges : InRange(c, r)

\* whether the capital sigma at s[i] is lower-cased to the final sigma: the
\* nearest code point before it that is not case-ignorable is cased, and the
\* nearest after it that is not case-ignorable, if any, is not cased
FinalSigma(s, i) ==
    LET before == { j \in 1..(i - 1) : ~CaseIgnorable(s[j]) }
        after == { j \in (i + 1)..Len(s) : ~CaseIgnorable(s[j]) }
    IN  /\ before # {}
        /\ Cased(s[CHOOSE j \in before : \A k \in before : k <= j])
        /\ after = {} \/ ~Cased(s[CHOOSE j \in after : \A k \in after : j <= k])

\* what s.lower() puts in place of s[i]: I with dot above (304) becomes i
\* and a combining dot, capital sigma (931) the final or the other sigma
LowerAt(s, i) ==
    IF s[i] = 304 THEN <<105, 775>>
    ELSE IF s[i] = 931 THEN <<IF FinalSigma(s, i) THEN 962 ELSE 963>>
    ELSE <<s[i] + LowerDelta(s[i])>>

\* mutant: no lower-casing
Lower_Identity(s) == s
\* line 189: s.lower(), on a string held as its code points
Lower(s) == Concat([i \in 1..Len(s) |-> LowerAt(s, i)])

\* one round of the loop body, on h = hi*2^32 + lo with lo < 2^28 on entry
ElfStep(acc, c) ==
    LET top   == acc.lo \div 16777216              \* bits 24..27 of h
        low   == acc.lo % 16777216
        x     == low * 16 + c                      \* low 28 bits of (h << 4) + c, plus carry
        nib   == top + (x \div 268435456)          \* bits 28.. of the sum
        tnib  == nib % 16                          \* t >> 28
        carry == nib \div 16                       \* bit 32 of the sum
        l28   == x % 268435456
        mixed == IF tnib # 0
                 THEN l28 - ((l28 \div 16) % 16) * 16
                          + BitXor((l28 \div 16) % 16, tnib) * 16
                 ELSE l28
    IN  [hi |-> acc.hi * 16 + carry, lo |-> mixed]

\* lines 191-196: the loop over the characters of the lower-cased string
RECURSIVE ElfLoop(_, _)
ElfLoop(acc, s) ==
    IF s = <<>> THEN acc ELSE ElfLoop(ElfStep(acc, Head(s)), Tail(s))

\* Hash.elf(s): h & 0xFFFFFFFF
Elf(s) == ElfLoop([hi |-> 0, lo |-> 0], Lower(s)).lo

(***************************************************************************)
(* SKL writer: io/export_skl.py write_skl.                                 *)
(***************************************************************************)
\* struct.pack('<f', x) for the float values the model uses
F32LE(x) ==
    CASE x = "0.0"  -> <<0, 0, 0, 0>>
      [] x = "1.0"  -> <<0, 0, 128, 63>>
      [] x = "-1.0" -> <<0, 0, 128, 191>>
      [] x = "-2.0" -> <<0, 0, 0, 192>>
      [] x = "-3.0" -> <<0, 0, 64, 192>>
      [] x = "2.1"  -> <<102, 102, 6, 64>>
      [] x = "1.00000012"  -> <<1, 0, 128, 63>>
      [] x = "0.033333335" -> <<137, 136, 8, 61>>
      [] x = "0.041666668" -> <<171, 170, 42, 61>>

\* bone names (ASCII codes): "R", "ab", "R.001", "L_x"
SklNames == { <<82>>, <<97, 98>>, <<82, 46, 48, 48, 49>>, <<76, 95, 120>> }

RECURSIVE IndexOfDot(_, _)
IndexOfDot(name, k) ==
    IF k > Len(name) THEN 0
    ELSE IF name[k] = 46 THEN k ELSE IndexOfDot(name, k + 1)

\* pbone.name.split('.')[0] if '.' in pbone.name else pbone.name
CleanName(name) ==
    LET d == IndexOfDot(name, 1)
    IN  IF d = 0 THEN name ELSE SubSeq(name, 1, d - 1)

\* lines 120-123: the translation x of l_mat_local.decompose(), as the host's
\* matrix library returns it; the other components are those of the identity
LocalTx(b) == IF b.xf = 1 THEN "1.0" ELSE "0.0"

\* bs.write_vec3(t); bs.write_vec3(s); bs.write_quat(r)  (quat as x, y, z, w)
TRSBytes(tx) ==
    F32LE(tx) \o F32LE("0.0") \o F32LE("0.0")
    \o F32LE("1.0") \o F32LE("1.0") \o F32LE("1.0")
    \o F32LE("0.0") \o F32LE("0.0") \o F32LE("0.0") \o F32LE("1.0")

joints_offset == 64
JointIndicesOffset(n) == joints_offset + n * 100
InfluencesOffset(n)   == JointIndicesOffset(n) + n * 8
JointNamesOffset(n)   == InfluencesOffset(n) + n * 2

\* lines 74-92: the 64 header bytes
SklHeaderBytes(n) ==
    U32LE(0) \o U32LE(587026371) \o U32LE(0)
    \o U16LE(0) \o U16LE(n) \o U32LE(n)
    \o I32LE(joints_offset) \o I32LE(JointIndicesOffset(n)) \o I32LE(InfluencesOffset(n))
    \o I32LE(0) \o I32LE(0) \o I32LE(JointNamesOffset(n))
    \o Concat([k \in 1..5 |-> <<255, 255, 255, 255>>])

\* lines 97-101: name_offsets[i] = bs.tell() before bone i's name
RECURSIVE NameOffsetsFrom(_, _, _)
NameOffsetsFrom(bones, k, pos) ==
    IF k > Len(bones) THEN <<>>
    ELSE <<pos>> \o NameOffsetsFrom(bones, k + 1, pos + Len(CleanName(bones[k].name)) + 1)

\* lines 97-101: the bytes of the name table
NameTableBytes(bones) == Concat([k \in 1..Len(bones) |-> CleanName(bones[k].name) \o <<0>>])

\* mutant of NameOffsetValue: the offset taken relative to the position after
\* the field
NameOffsetValue_AfterField(nameOffsets, i, recPos) == nameOffsets[i + 1] - (recPos + 100)

\* lines 137-139: the value stored in the name-offset field of joint i
\* (0-based), whose record starts at recPos: curr_pos = bs.tell() is the
\* position of the field itself
NameOffsetValue(nameOffsets, i, recPos) == nameOffsets[i + 1] - (recPos + 96)

\* line 16 and .get(name, -1): bone_name_to_index = {b.name: i for i, b in
\* enumerate(bone_list)}; a later bone of the same name replaces an earlier one
BoneNameToIndexGet(bones, name) ==
    LET at == { i \in 1..Len(bones) : bones[i].name = name }
    IN  IF at = {} THEN -1 ELSE (CHOOSE i \in at : \A j \in at : j <= i) - 1

\* mutant: the parent looked up by its name cut at the first dot
ParentIdx_ByCleanName(bones, i) ==
    LET b == bones[i + 1]
    IN  IF b.parent = -1 THEN -1
        ELSE BoneNameToIndexGet(bones, CleanName(bones[b.parent + 1].name))

\* lines 109-111: parent_idx of bone i (0-based); bones[i + 1].parent is the
\* position of pbone.parent among the pose bones, -1 when pbone.parent is None
ParentIdx(bones, i) ==
    LET b == bones[i + 1]
    IN  IF b.parent = -1 THEN -1
        ELSE BoneNameToIndexGet(bones, bones[b.parent + 1].name)

\* lines 25-63, calc_league_matrix(bone_idx): the translation x of
\* l_mat_global, which is parent_global @ l_mat_local when the parent is in
\* bone_name_to_index (line 59, recursively through the parent chain) and
\* l_mat_local otherwise (line 61)
RECURSIVE GlobalTx(_, _)
GlobalTx(bones, i) ==
    LET b == bones[i + 1]
        \* line 56
        parent_idx == IF b.parent = -1 THEN -1
                      ELSE BoneNameToIndexGet(bones, bones[b.parent + 1].name)
    IN  IF parent_idx >= 0 THEN GlobalTx(bones, parent_idx) + bones[i + 1].xf
        ELSE bones[i + 1].xf

\* lines 130-131: the translation x of l_mat_global.inverted().decompose()
InvGlobalTx(bones, i) ==
    LET t == GlobalTx(bones, i)
    IN  CASE t = 0 -> "0.0"
          [] t = 1 -> "-1.0"
          [] t = 2 -> "-2.0"
          [] t = 3 -> "-3.0"

\* lines 106-139: the 100 bytes of joint record i (0-based)
JointRecordBytes(bones, nameOffsets, i) ==
    LET b == bones[i + 1]
        recPos == joints_offset + i * 100
    IN  U16LE(0) \o U16LE(i) \o I16LE(ParentIdx(bones, i)) \o U16LE(0)
        \o U32LE(Elf(CleanName(b.name))) \o F32LE("2.1")
        \o TRSBytes(LocalTx(b)) \o TRSBytes(InvGlobalTx(bones, i))
        \o I32LE(NameOffsetValue(nameOffsets, i, recPos))

\* lines 143-147
JointIndexBytes(bones, i) ==
    U16LE(i) \o U16LE(0) \o U32LE(Elf(CleanName(bones[i + 1].name)))

\* a parent chain from bone i (0-based) reaches a root within k steps
RECURSIVE ReachesRoot(_, _, _)
ReachesRoot(bones, i, k) ==
    IF i = -1 THEN TRUE
    ELSE IF k = 0 THEN FALSE
    ELSE ReachesRoot(bones, bones[i + 1].parent, k - 1)

\* armatures: bones with distinct names whose parents form a forest
Armatures ==
    UNION { { bs \in [1..n -> [name : SklNames, parent : -1..(n - 1), xf : 0..1]] :
                /\ \A i, j \in 1..n : i # j => bs[i].name # bs[j].name
                /\ \A i \in 1..n : ReachesRoot(bs, i - 1, n) }
            : n \in 0..MaxBones }

SklInit ==
    /\ sklPc = "w_header"
    /\ sklBones \in Armatures
    /\ sklFile = <<>>
    /\ sklPos = 0
    /\ sklNameOffsets = <<>>
    /\ sklTotalSize = -1
    /\ sklHdr = [joint_count |-> 0, influence_count |-> 0, joints_offset |-> 0,
                 influences_offset |-> 0]
    /\ sklJoints = <<>>
    /\ sklInfluences = <<>>

\* lines 70-92: open(filepath, 'wb') and the header
SklWriteHeader ==
    /\ sklPc = "w_header"
    /\ sklFile' = WriteAt(<<>>, 0, SklHeaderBytes(Len(sklBones)))
    /\ sklPos' = 64
    /\ sklPc' = "w_names"
    /\ UNCHANGED <<sklBones, sklNameOffsets, sklTotalSize, sklHdr, sklJoints, sklInfluences>>
    /\ UNCHANGED sklOthers

\* lines 95-101: the name table, written at joint_names_offset
SklWriteNames ==
    /\ sklPc = "w_names"
    /\ LET n == Len(sklBones)
           bytes == NameTableBytes(sklBones)
       IN  /\ sklNameOffsets' = NameOffsetsFrom(sklBones, 1, JointNamesOffset(n))
           /\ sklFile' = IF bytes = <<>> THEN sklFile
                         ELSE WriteAt(sklFile, JointNamesOffset(n), bytes)
           /\ sklPos' = JointNamesOffset(n) + Len(bytes)
    /\ sklPc' = "w_joints"
    /\ UNCHANGED <<sklBones, sklTotalSize, sklHdr, sklJoints, sklInfluences>>
    /\ UNCHANGED sklOthers

\* lines 104-139: the joint records, written at joints_offset
SklWriteJoints ==
    /\ sklPc = "w_joints"
    /\ LET n == Len(sklBones)
           bytes == Concat([k \in 1..n |-> JointRecordBytes(sklBones, sklNameOffsets, k - 1)])
       IN  /\ sklFile' = IF bytes = <<>> THEN sklFile ELSE WriteAt(sklFile, joints_offset, bytes)
           /\ sklPos' = joints_offset + Len(bytes)
    /\ sklPc' = "w_indices"
    /\ UNCHANGED <<sklBones, sklNameOffsets, sklTotalSize, sklHdr, sklJoints, sklInfluences>>
    /\ UNCHANGED sklOthers

\* lines 142-147: the joint index table
SklWriteIndices ==
    /\ sklPc = "w_indices"
    /\ LET n == Len(sklBones)
           bytes == Concat([k \in 1..n |-> JointIndexBytes(sklBones, k - 1)])
       IN  /\ sklFile' = IF bytes = <<>> THEN sklFile
                         ELSE WriteAt(sklFile, JointIndicesOffset(n), bytes)
           /\ sklPos' = JointIndicesOffset(n) + Len(bytes)
    /\ sklPc' = "w_influences"
    /\ UNCHANGED <<sklBones, sklNameOffsets, sklTotalSize, sklHdr, sklJoints, sklInfluences>>
    /\ UNCHANGED sklOthers

\* lines 149-151: the influence table
SklWriteInfluences ==
    /\ sklPc = "w_influences"
    /\ LET n == Len(sklBones)
           bytes == Concat([k \in 1..n |-> U16LE(k - 1)])
       IN  /\ sklFile' = IF bytes = <<>> THEN sklFile
                         ELSE WriteAt(sklFile, InfluencesOffset(n), bytes)
           /\ sklPos' = InfluencesOffset(n) + Len(bytes)
    /\ sklPc' = "w_finalize"
    /\ UNCHANGED <<sklBones, sklNameOffsets, sklTotalSize, sklHdr, sklJoints, sklInfluences>>
    /\ UNCHANGED sklOthers

\* lines 153-156: total_size = bs.tell(); bs.seek(0); bs.write_uint32(total_size)
SklFinalize ==
    /\ sklPc = "w_finalize"
    /\ sklTotalSize' = sklPos
    /\ sklFile' = WriteAt(sklFile, 0, U32LE(sklPos))
    /\ sklPos' = 4
    /\ sklPc' = "written"
    /\ UNCHANGED <<sklBones, sklNameOffsets, sklHdr, sklJoints, sklInfluences>>
    /\ UNCHANGED sklOthers

(***************************************************************************)
(* SKL reader: io/import_skl.py read_skl.                                  *)
(***************************************************************************)
\* line 99: where read_skl seeks to for a joint's name
NameSeekPos(return_offset, joint_name_offset) == return_offset - 4 + joint_name_offset

\* lines 100-104: the name read at namePos; joint 0 with an empty name is
\* re-read one byte further on
JointNameAt(f, i, namePos) ==
    LET first == ReadCharUntilZero(f, namePos)
        after == IF namePos + Len(first) < Len(f) THEN namePos + Len(first) + 1
                 ELSE namePos + Len(first)
    IN  IF i = 0 /\ first = <<>> THEN ReadCharUntilZero(f, after + 1) ELSE first

\* lines 34-49: the header; a wrong magic or version raises, and so does a
\* field read past the end of the file (struct.error). The fields end at byte
\* 32: the 32 bytes after them are skipped by bs.pad(32), a seek, which does
\* not need them to be there
SklReadHeader ==
    /\ sklPc = "written"
    /\ IF \/ Len(sklFile) < 8
          \/ DecU32(ReadAt(sklFile, 4, 4)) # 587026371
          \/ Len(sklFile) < 12
          \/ DecU32(ReadAt(sklFile, 8, 4)) # 0
          \/ Len(sklFile) < 32
       THEN /\ sklPc' = "r_error"
            /\ UNCHANGED <<sklHdr, sklPos>>
       ELSE /\ sklHdr' = [joint_count       |-> DecU16(ReadAt(sklFile, 14, 2)),
                          influence_count   |-> DecU32(ReadAt(sklFile, 16, 4)),
                          joints_offset     |-> DecI32(ReadAt(sklFile, 20, 4)),
                          influences_offset |-> DecI32(ReadAt(sklFile, 28, 4))]
            /\ sklPos' = IF sklHdr'.joints_offset > 0 THEN sklHdr'.joints_offset ELSE 64
            /\ sklPc' = IF sklHdr'.joints_offset > 0 THEN "r_joints" ELSE "r_influences"
    /\ UNCHANGED <<sklBones, sklFile, sklNameOffsets, sklTotalSize, sklJoints, sklInfluences>>
    /\ UNCHANGED sklOthers

\* lines 56-106: one iteration of the joint loop
SklReadJoint ==
    /\ sklPc = "r_joints"
    /\ Len(sklJoints) < sklHdr.joint_count
    /\ LET i == Len(sklJoints)
           rec == sklPos
       IN  IF rec + 100 > Len(sklFile)
           THEN /\ sklPc' = "r_error"
                /\ UNCHANGED <<sklJoints, sklPos>>
           ELSE LET joint_name_offset == DecI32(ReadAt(sklFile, rec + 96, 4))
                    return_offset == rec + 100
                    namePos == NameSeekPos(return_offset, joint_name_offset)
                IN  IF namePos < 0
                    THEN /\ sklPc' = "r_error"
                         /\ UNCHANGED <<sklJoints, sklPos>>
                    ELSE /\ sklJoints' = Append(sklJoints,
                                [parent        |-> DecI16(ReadAt(sklFile, rec + 4, 2)),
                                 raw_trans     |-> ReadAt(sklFile, rec + 16, 12),
                                 name_offset   |-> joint_name_offset,
                                 return_offset |-> return_offset,
                                 name_pos      |-> namePos,
                                 name          |-> JointNameAt(sklFile, i, namePos)])
                         /\ sklPos' = return_offset
                         /\ sklPc' = "r_joints"
    /\ UNCHANGED <<sklBones, sklFile, sklNameOffsets, sklTotalSize, sklHdr, sklInfluences>>
    /\ UNCHANGED sklOthers

\* end of the joint loop
SklJointsDone ==
    /\ sklPc = "r_joints"
    /\ Len(sklJoints) >= sklHdr.joint_count
    /\ sklPc' = "r_influences"
    /\ UNCHANGED <<sklBones, sklFile, sklPos, sklNameOffsets, sklTotalSize, sklHdr,
                   sklJoints, sklInfluences>>
    /\ UNCHANGED sklOthers

\* lines 109-113: the influence table
SklReadInfluences ==
    /\ sklPc = "r_influences"
    /\ IF sklHdr.influences_offset > 0 /\ sklHdr.influence_count > 0
       THEN LET n == sklHdr.influence_count
                raw == ReadAt(sklFile, sklHdr.influences_offset, 2 * n)
            IN  IF Len(raw) < 2 * n
                THEN /\ sklPc' = "r_error"
                     /\ UNCHANGED <<sklInfluences, sklPos>>
                ELSE /\ sklInfluences' = [k \in 1..n |-> DecU16(SubSeq(raw, 2 * k - 1, 2 * k))]
                     /\ sklPos' = sklHdr.influences_offset + 2 * n
                     /\ sklPc' = "done"
       ELSE /\ sklPc' = "done"
            /\ UNCHANGED <<sklInfluences, sklPos>>
    /\ UNCHANGED <<sklBones, sklFile, sklNameOffsets, sklTotalSize, sklHdr, sklJoints>>
    /\ UNCHANGED sklOthers

SklNext ==
    \/ SklWriteHeader
    \/ SklWriteNames
    \/ SklWriteJoints
    \/ SklWriteIndices
    \/ SklWriteInfluences
    \/ SklFinalize
    \/ SklReadHeader
    \/ SklReadJoint
    \/ SklJointsDone
    \/ SklReadInfluences



(***************************************************************************)
(* Claims on the SKL codec (SpecSkl).                                      *)
(***************************************************************************)
\* C1 (as claimed): for every armature with at least one bone, the u32 that
\* write_skl backpatches at offset 0 equals the final length of the file, so
\* it covers the joint-name table stored after the influence table.
C1_ResourceSizeIsFileLength ==
    (sklPc = "written" /\ Len(sklBones) >= 1)
        => DecU32(ReadAt(sklFile, 0, 4)) = Len(sklFile)

\* C8 (as claimed): read_skl locates each joint name at (position immediately
\* after reading the name-offset field) + (offset value), and write_skl
\* stores the offset so that this rule reaches the first byte of the name.
C8_NameAtPositionAfterFieldPlusOffset ==
    \A k \in 1..Len(sklJoints) :
        /\ sklJoints[k].name_pos = sklJoints[k].return_offset + sklJoints[k].name_offset
        /\ sklJoints[k].return_offset + sklJoints[k].name_offset = sklNameOffsets[k]

\* C8 (amended): the offset is relative to the position of the name-offset
\* field itself (the position after reading it, minus 4): read_skl seeks to
\* field position + offset, and write_skl stores the offset so that this
\* position is the first byte of that joint's null-terminated name.
C8_NameAtFieldPositionPlusOffset ==
    \A k \in 1..Len(sklJoints) :
        LET j == sklJoints[k]
            nm == CleanName(sklBones[k].name)
        IN  /\ j.name_pos = (j.return_offset - 4) + j.name_offset
            /\ j.name_pos = sklNameOffsets[k]
            /\ ReadAt(sklFile, j.name_pos, Len(nm) + 1) = nm \o <<0>>
            /\ j.name = nm

\* C8 witness: a two-joint file has been written and read back
C8_Witness == sklPc = "done" /\ Len(sklJoints) = 2 /\ sklJoints[2].name_offset # 0

\* C15: after write_skl and read_skl, as many joints are read as bones were
\* written, and joint i's parent index is the position of bone i's parent in
\* pose-bone order, -1 for a bone without parent.
C15_ParentRoundTrip ==
    sklPc = "done" =>
        /\ Len(sklJoints) = Len(sklBones)
        /\ \A k \in 1..Len(sklBones) : sklJoints[k].parent = sklBones[k].parent

\* C15 witness: two bones "R" and "R.001", the first the child of the second,
\* were written and read back
C15_Witness ==
    /\ sklPc = "done" /\ Len(sklBones) = 2
    /\ sklBones[1].name = <<82>> /\ sklBones[1].parent = 1
    /\ sklBones[2].name = <<82, 46, 48, 48, 49>> /\ sklBones[2].parent = -1
    /\ sklJoints[1].parent = 1 /\ sklJoints[2].parent = -1

(***************************************************************************)
(* SKN writer: io/export_skn.py write_skn_multi.                           *)
(***************************************************************************)
\* what the loop at lines 115-149 meets in mesh_objects: an object that is
\* no mesh, a mesh without triangles, and meshes of 3, 4 and 65529 vertices
\* ([vertices, indices] as collect_mesh_data returns them)
MeshObjects ==
    { [type |-> "EMPTY", verts |-> 0, idx |-> 0],
      [type |-> "MESH", verts |-> 0, idx |-> 0],
      [type |-> "MESH", verts |-> 3, idx |-> 3],
      [type |-> "MESH", verts |-> 4, idx |-> 6],
      [type |-> "MESH", verts |-> 65529, idx |-> 65529] }

\* mutant: the vertex limit off by one
TooManyVertices_OffByOne(total_vertex_count) == total_vertex_count > 65536
\* line 155
TooManyVertices(total_vertex_count) == total_vertex_count > 65535

\* mutant: the submesh limit off by one
TooManySubmeshes_OffByOne(n) == n > 33
\* line 158
TooManySubmeshes(n) == n > 32

SknwInit ==
    /\ sknwPc = "start"
    /\ sknwErr = "none"
    /\ sknwArmature \in BOOLEAN
    /\ sknwSubmeshes = 0
    /\ sknwVertexCount = 0
    /\ sknwIndexCount = 0
    /\ sknwDiskBefore \in {"absent", "existing"}
    /\ sknwDisk = sknwDiskBefore

\* lines 96-113
SknwStart ==
    /\ sknwPc = "start"
    /\ IF sknwArmature THEN sknwPc' = "collect" /\ sknwErr' = sknwErr
       ELSE sknwPc' = "raised" /\ sknwErr' = "No armature found"
    /\ UNCHANGED <<sknwArmature, sknwSubmeshes, sknwVertexCount, sknwIndexCount,
                   sknwDiskBefore, sknwDisk>>
    /\ UNCHANGED sknwOthers

\* lines 115-149: one iteration of the loop over mesh_objects
SknwCollect ==
    /\ sknwPc = "collect"
    /\ sknwSubmeshes < MaxSubmeshes
    /\ \E obj \in MeshObjects :
          IF obj.type # "MESH" \/ obj.idx = 0
          THEN UNCHANGED <<sknwSubmeshes, sknwVertexCount, sknwIndexCount>>
          ELSE /\ sknwSubmeshes' = sknwSubmeshes + 1
               /\ sknwVertexCount' = sknwVertexCount + obj.verts
               /\ sknwIndexCount' = sknwIndexCount + obj.idx
    /\ UNCHANGED <<sknwPc, sknwErr, sknwArmature, sknwDiskBefore, sknwDisk>>
    /\ UNCHANGED sknwOthers

\* lines 151-159: the loop has ended; the checks made before the file is opened
SknwValidate ==
    /\ sknwPc = "collect"
    /\ IF sknwSubmeshes = 0
       THEN sknwPc' = "raised" /\ sknwErr' = "No geometry found to export"
       ELSE IF TooManyVertices(sknwVertexCount)
       THEN sknwPc' = "raised" /\ sknwErr' = "Too many vertices"
       ELSE IF TooManySubmeshes(sknwSubmeshes)
       THEN sknwPc' = "raised" /\ sknwErr' = "Too many submeshes/materials"
       ELSE sknwPc' = "open" /\ sknwErr' = sknwErr
    /\ UNCHANGED <<sknwArmature, sknwSubmeshes, sknwVertexCount, sknwIndexCount,
                   sknwDiskBefore, sknwDisk>>
    /\ UNCHANGED sknwOthers

\* line 162: open(filepath, 'wb') creates or truncates the file
SknwOpen ==
    /\ sknwPc = "open"
    /\ sknwDisk' = "truncated"
    /\ sknwPc' = "write"
    /\ UNCHANGED <<sknwErr, sknwArmature, sknwSubmeshes, sknwVertexCount, sknwIndexCount,
                   sknwDiskBefore>>
    /\ UNCHANGED sknwOthers

\* lines 165-188: header, submesh table, indices, vertices.  write_uint8 of a
\* bone index raises struct.error when the index exceeds 255
SknwWrite ==
    /\ sknwPc = "write"
    /\ \E max_bone_index \in {0, 255, 256} :
          IF max_bone_index > 255
          THEN sknwDisk' = "partial" /\ sknwPc' = "raised" /\ sknwErr' = "struct.error"
          ELSE sknwDisk' = "written" /\ sknwPc' = "returned" /\ sknwErr' = sknwErr
    /\ UNCHANGED <<sknwArmature, sknwSubmeshes, sknwVertexCount, sknwIndexCount,
                   sknwDiskBefore>>
    /\ UNCHANGED sknwOthers

SknwNext == SknwStart \/ SknwCollect \/ SknwValidate \/ SknwOpen \/ SknwWrite

\* C2: write_skn_multi raises whenever the total vertex count exceeds 65535 or
\* the number of non-empty submeshes exceeds 32, and then the target file is
\* as it was before the call (neither created nor truncated); with both
\* counts within the limits it does not raise for this reason.
C2_LimitsRejectedBeforeOpen ==
    LET over == sknwVertexCount > 65535 \/ sknwSubmeshes > 32
        limitErr == sknwErr \in {"Too many vertices", "Too many submeshes/materials"}
    IN  /\ (sknwPc \notin {"start", "collect"} /\ over)
              => (sknwPc = "raised" /\ sknwDisk = sknwDiskBefore)
        /\ limitErr => (over /\ sknwPc = "raised" /\ sknwDisk = sknwDiskBefore)
        /\ (sknwErr = "Too many vertices") => sknwVertexCount > 65535
        /\ (sknwErr = "Too many submeshes/materials") => sknwSubmeshes > 32

\* C2 witnesses: a rejection for 65536 vertices in two submeshes, with an
\* existing target file
C2_Witness ==
    /\ sknwPc = "raised" /\ sknwErr = "Too many vertices"
    /\ sknwVertexCount = 65536 /\ sknwSubmeshes <= 32 /\ sknwDiskBefore = "existing"

\* C26 (as claimed): write_skn_multi is all-or-nothing with respect to the
\* target file: whenever it raises, also for a vertex whose bone index does
\* not fit the u8 field (an armature of more than 256 bones), the target
\* file is as it was before the call, neither created, truncated nor
\* partially written.
C26_RaiseLeavesTargetUntouched ==
    sknwPc = "raised" => sknwDisk = sknwDiskBefore

(***************************************************************************)
(* SKN reader: io/import_skn.py read_skn.                                  *)
(***************************************************************************)
\* the 52 bytes of vertex v of a file: position (v, 0, 0) as raw bytes,
\* influences (v, 0, 0, 0), weights (1, 0, 0, 0), normal, uv
SknVertexBytes(v) ==
    <<v, 0, 0, 0>> \o Zeros(8) \o <<v, 0, 0, 0>>
    \o F32LE("1.0") \o Zeros(12) \o Zeros(12) \o Zeros(8)

\* a submesh table entry: char[64] name "m", then four u32
SknSubmeshBytes(vstart, vcount, istart, icount) ==
    <<109>> \o Zeros(63) \o U32LE(vstart) \o U32LE(vcount) \o U32LE(istart) \o U32LE(icount)

\* the bytes of a .skn file of the given major version with one submesh
\* covering everything, the given u16 index section and nverts vertices;
\* in.declared is the value of the vertex_count fields
SknFileBytes(in) ==
    LET ic == Len(in.idx)
        head == U32LE(1122867) \o U16LE(in.major) \o U16LE(1)
        table == IF in.major = 0 THEN <<>>
                 ELSE U32LE(1) \o SknSubmeshBytes(0, in.declared, 0, ic)
                      \o (IF in.major >= 4 THEN U32LE(0) ELSE <<>>)
        totals == U32LE(ic) \o U32LE(in.declared)
                  \o (IF in.major >= 4 THEN U32LE(52) \o U32LE(0) \o Zeros(40) ELSE <<>>)
    IN  head \o table \o totals
        \o Concat([k \in 1..ic |-> U16LE(in.idx[k])])
        \o Concat([k \in 1..in.nverts |-> SknVertexBytes(k - 1)])

\* a vertex_count field far above what the file holds (2^24)
HugeVertexCount == Pow2(24)

\* mutant of FaceKept: the comparison of the last with the first index left out
FaceKept_TwoComparisons(face) == ~(face[1] = face[2] \/ face[2] = face[3])

\* line 80: the face is kept unless two of its indices are equal
FaceKept(face) == ~(face[1] = face[2] \/ face[2] = face[3] \/ face[3] = face[1])

\* the lengths at which the damaged input files are cut: inside the
\* signature, after the version, inside the submesh count, inside the first
\* submesh name, after the table of one submesh, inside vertex_type
SknCuts == {3, 8, 10, 34, 96, 110}

\* the files given to read_skn for an input: the whole file and, for the
\* smallest input, the file cut short and the file with a byte above 127 in
\* its first submesh name
SknrFiles(in) ==
    LET f == SknFileBytes(in)
    IN  {f} \cup
        (IF in.idx = <<>> /\ in.declared = 1
         THEN { SubSeq(f, 1, Min(c, Len(f))) : c \in SknCuts }
              \cup { [f EXCEPT ![14] = 255] : x \in { m \in {in.major} : m # 0 } }
         ELSE {})

SknrInit ==
    /\ sknrPc = "header"
    /\ sknrIn \in { in \in [major : {0, 1, 4},
                            idx : UNION { [1..n -> 0..2] : n \in 0..MaxIndices },
                            nverts : {1, 3},
                            declared : {1, 3, HugeVertexCount}] :
                        in.declared \in {in.nverts, HugeVertexCount} }
    /\ sknrFile \in SknrFiles(sknrIn)
    /\ sknrPos = 0
    /\ sknrHdr = [index_count |-> 0, vertex_count |-> 0, vertex_type |-> 0, face |-> 0]
    /\ sknrSubmeshes = <<>>
    /\ sknrIndices = <<>>
    /\ sknrVertices = <<>>
    /\ sknrAlloc = [submeshes |-> 0, vertices |-> 0]

\* lines 39-74: signature, version, submesh table and totals. Every field is
\* read on its own, so the first field that lies past the end of the file
\* raises struct.error; the submesh list is created (line 57) before the
\* table is read, and a name holding a byte above 127 raises
\* UnicodeDecodeError (line 60, read_padded_ascii)
SknrReadHeader ==
    /\ sknrPc = "header"
    /\ LET f == sknrFile
           major == DecU16(ReadAt(f, 4, 2))
           n == IF major = 0 THEN 0 ELSE DecU32(ReadAt(f, 8, 4))
           name(k) == ReadAt(f, 12 + 80 * (k - 1), 64)
           sub(k) == LET at == 12 + 80 * (k - 1)
                     IN  [name |-> SelectSeq(name(k), LAMBDA b : b # 0),
                          vertex_start |-> DecU32(ReadAt(f, at + 64, 4)),
                          vertex_count |-> DecU32(ReadAt(f, at + 68, 4)),
                          index_start  |-> DecU32(ReadAt(f, at + 72, 4)),
                          index_count  |-> DecU32(ReadAt(f, at + 76, 4))]
           subRaises(k) == \/ \E j \in 1..Len(name(k)) : name(k)[j] >= 128
                           \/ Len(f) < 12 + 80 * k
           tot == IF major = 0 THEN 8
                  ELSE 12 + 80 * n + (IF major >= 4 THEN 4 ELSE 0)
           ic == DecU32(ReadAt(f, tot, 4))
           vc == DecU32(ReadAt(f, tot + 4, 4))
           \* lines 39-42, and the submesh count of line 56
           startRaises == \/ Len(f) < 4
                          \/ DecU32(ReadAt(f, 0, 4)) # 1122867
                          \/ Len(f) < 8
                          \/ major # 0 /\ Len(f) < 12
           \* lines 47, 60-64, 69 and 73
           restRaises == \/ \E k \in 1..n : subRaises(k)
                         \/ Len(f) < tot + 8
                         \/ major >= 4 /\ Len(f) < tot + 16
       IN  IF startRaises
           THEN /\ sknrPc' = "raised"
                /\ UNCHANGED <<sknrPos, sknrHdr, sknrSubmeshes, sknrAlloc>>
           ELSE IF restRaises
           THEN /\ sknrPc' = "raised"
                /\ sknrAlloc' = [sknrAlloc EXCEPT !.submeshes = n]
                /\ UNCHANGED <<sknrPos, sknrHdr, sknrSubmeshes>>
           ELSE /\ sknrSubmeshes' =
                      IF major = 0
                      THEN << [name |-> <<66, 97, 115, 101>>, vertex_start |-> 0,
                               vertex_count |-> vc, index_start |-> 0, index_count |-> ic] >>
                      ELSE [k \in 1..n |-> sub(k)]
                /\ sknrAlloc' = [sknrAlloc EXCEPT !.submeshes = IF major = 0 THEN 1 ELSE n]
                /\ sknrHdr' = [index_count |-> ic, vertex_count |-> vc,
                               vertex_type |-> IF major >= 4
                                               THEN DecU32(ReadAt(f, tot + 12, 4)) ELSE 0,
                               face |-> 0]
                /\ sknrPos' = tot + 8 + (IF major >= 4 THEN 48 ELSE 0)
                /\ sknrPc' = "indices"
    /\ UNCHANGED <<sknrIn, sknrFile, sknrIndices, sknrVertices>>
    /\ UNCHANGED sknrOthers

\* lines 77-81: one iteration of the face loop, index_count // 3 in all
SknrReadFace ==
    /\ sknrPc = "indices"
    /\ sknrHdr.face < sknrHdr.index_count \div 3
    /\ LET raw == ReadAt(sknrFile, sknrPos, 6)
           face == [k \in 1..3 |-> DecU16(SubSeq(raw, 2 * k - 1, 2 * k))]
       IN  IF Len(raw) < 6
           THEN /\ sknrPc' = "raised"
                /\ UNCHANGED <<sknrPos, sknrHdr, sknrIndices>>
           ELSE /\ sknrIndices' = IF FaceKept(face) THEN sknrIndices \o face ELSE sknrIndices
                /\ sknrPos' = sknrPos + 6
                /\ sknrHdr' = [sknrHdr EXCEPT !.face = @ + 1]
                /\ sknrPc' = "indices"
    /\ UNCHANGED <<sknrIn, sknrFile, sknrSubmeshes, sknrVertices, sknrAlloc>>
    /\ UNCHANGED sknrOthers

\* lines 84-95: the vertex loop, from wherever the face loop left the stream
SknrReadVertices ==
    /\ sknrPc = "indices"
    /\ sknrHdr.face >= sknrHdr.index_count \div 3
    /\ LET stride == 52 + (IF sknrHdr.vertex_type >= 1 THEN 4 ELSE 0)
                        + (IF sknrHdr.vertex_type = 2 THEN 16 ELSE 0)
           n == sknrHdr.vertex_count
           vert(k) == LET at == sknrPos + stride * (k - 1)
                      IN  [position   |-> ReadAt(sknrFile, at, 12),
                           influences |-> ReadAt(sknrFile, at + 12, 4),
                           weights    |-> ReadAt(sknrFile, at + 16, 16),
                           uv         |-> ReadAt(sknrFile, at + 44, 8)]
       IN  /\ sknrAlloc' = [sknrAlloc EXCEPT !.vertices = n]       \* line 84
           /\ IF n > 0 /\ sknrPos + stride * (n - 1) + 52 > Len(sknrFile)
              THEN /\ sknrPc' = "raised"
                   /\ UNCHANGED <<sknrPos, sknrVertices>>
              ELSE /\ sknrVertices' = [k \in 1..n |-> vert(k)]
                   /\ sknrPos' = sknrPos + stride * n
                   /\ sknrPc' = "returned"
    /\ UNCHANGED <<sknrIn, sknrFile, sknrHdr, sknrSubmeshes, sknrIndices>>
    /\ UNCHANGED sknrOthers

SknrNext == SknrReadHeader \/ SknrReadFace \/ SknrReadVertices

\* the triangles of an index section (groups of three, in order) whose three
\* indices are pairwise distinct
RECURSIVE DistinctTriangles(_)
DistinctTriangles(idx) ==
    IF Len(idx) < 3 THEN <<>>
    ELSE (IF idx[1] # idx[2] /\ idx[1] # idx[3] /\ idx[2] # idx[3]
          THEN SubSeq(idx, 1, 3) ELSE <<>>)
         \o DistinctTriangles(SubSeq(idx, 4, Len(idx)))

\* C3: once the face loop has ended, the index list of read_skn holds exactly
\* the triangles of the file's index section whose three indices are pairwise
\* distinct, in file order; every triangle with two equal indices is dropped.
C3_DegenerateTrianglesDropped ==
    (sknrPc = "indices" /\ sknrHdr.face >= sknrHdr.index_count \div 3)
        \/ sknrPc = "returned"
    => sknrIndices = DistinctTriangles(sknrIn.idx)

\* C3 witness: a file of two triangles, (0,0,1) dropped and (0,1,2) kept
C3_Witness ==
    /\ sknrPc = "returned"
    /\ sknrIn.idx = <<0, 0, 1, 0, 1, 2>>
    /\ sknrIndices = <<0, 1, 2>>

\* C16 (as claimed): in the model read_skn returns, every submesh's index
\* range lies inside the returned index list and its vertex range inside the
\* returned vertices, also after degenerate triangles have been dropped.
C16_SubmeshRangesInsideTotals ==
    sknrPc = "returned" =>
        \A k \in 1..Len(sknrSubmeshes) :
            /\ sknrSubmeshes[k].index_start + sknrSubmeshes[k].index_count <= Len(sknrIndices)
            /\ sknrSubmeshes[k].vertex_start + sknrSubmeshes[k].vertex_count
                   <= Len(sknrVertices)

\* C20 (as claimed): no reader creates a list sized by a count field of the
\* file before comparing the field with an upper bound: read_skn has created
\* no more SKNSubmesh and SKNVertex objects than the format's hard limits of
\* 32 submeshes and 65535 vertices (and likewise read_skl for joint_count
\* and decompress_dds_bytes for width x height).
C20_CountsBoundedBeforeAllocation ==
    /\ ~TooManySubmeshes(sknrAlloc.submeshes)
    /\ ~TooManyVertices(sknrAlloc.vertices)

\* the offset of the index section of the file given to read_skn
SknIndexStart(in) == Len(SknFileBytes(in)) - 2 * Len(in.idx) - 52 * in.nverts

\* C25 (as claimed): when read_skn has finished the index section the stream
\* is at index-section start + 2 x indexCount, for every indexCount, also
\* one that is not a multiple of 3, and the first vertex returned is the one
\* at the true start of the vertex section.
C25_IndexSectionFullyConsumed ==
    /\ (sknrPc = "indices" /\ sknrHdr.face >= sknrHdr.index_count \div 3)
          => sknrPos = SknIndexStart(sknrIn) + 2 * sknrHdr.index_count
    /\ (sknrPc = "returned" /\ Len(sknrVertices) > 0)
          => sknrVertices[1].position = SubSeq(SknVertexBytes(0), 1, 12)

(***************************************************************************)
(* DDS -> TEX: LtMAO/Ritoddstex.py dds2tex; TEX -> DDS: tex_to_dds_bytes.  *)
(***************************************************************************)
\* the single-byte channel masks, as the four little-endian bytes of the u32
Mask0 == <<255, 0, 0, 0>>       \* 0x000000ff
Mask1 == <<0, 255, 0, 0>>       \* 0x0000ff00
Mask2 == <<0, 0, 255, 0>>       \* 0x00ff0000
Mask3 == <<0, 0, 0, 255>>       \* 0xff000000
ByteMasks == {Mask0, Mask1, Mask2, Mask3}

\* lines 45-50: mask_to_index; -2 stands for the KeyError of a missing key
mask_to_index(m) ==
    CASE m = Mask0 -> 0 [] m = Mask1 -> 1 [] m = Mask2 -> 2 [] m = Mask3 -> 3 [] OTHER -> -2

\* the ddspf variants of the input files
RgbPf(bits, r, g, b, a) ==
    [fourcc |-> "none", flags41 |-> TRUE, bits |-> bits, r |-> r, g |-> g, b |-> b, a |-> a]
PixelFormats ==
    { [fourcc |-> "DXT1", flags41 |-> FALSE, bits |-> 0, r |-> Zeros(4), g |-> Zeros(4),
       b |-> Zeros(4), a |-> Zeros(4)],
      [fourcc |-> "DXT5", flags41 |-> FALSE, bits |-> 0, r |-> Zeros(4), g |-> Zeros(4),
       b |-> Zeros(4), a |-> Zeros(4)],
      [fourcc |-> "ATI2", flags41 |-> FALSE, bits |-> 0, r |-> Zeros(4), g |-> Zeros(4),
       b |-> Zeros(4), a |-> Zeros(4)],
      RgbPf(32, Mask2, Mask1, Mask0, Mask3),      \* canonical B, G, R, A
      RgbPf(32, Mask0, Mask1, Mask2, Mask3),      \* R, G, B, A
      RgbPf(32, Mask3, Mask2, Mask1, Mask0),      \* A, B, G, R
      RgbPf(32, Mask0, Mask0, Mask0, Mask3),      \* no permutation
      RgbPf(32, <<0, 255, 255, 0>>, Mask1, Mask0, Mask3),  \* unknown mask
      RgbPf(24, Mask2, Mask1, Mask0, Zeros(4)) }

\* lines 95-103: (block_size, bytes_per_block) of a tex format
BlockSize(fmt) == IF fmt \in {"DXT1", "DXT5"} THEN 4 ELSE 1
BytesPerBlock(fmt) == CASE fmt = "DXT1" -> 8 [] fmt = "DXT5" -> 16 [] OTHER -> 4

\* lines 108-114: current_size of mip level i
MipSize(fmt, width, height, i) ==
    LET current_width == Max(width \div Pow2(i), 1)
        current_height == Max(height \div Pow2(i), 1)
        block_width == (current_width + BlockSize(fmt) - 1) \div BlockSize(fmt)
        block_height == (current_height + BlockSize(fmt) - 1) \div BlockSize(fmt)
    IN  BytesPerBlock(fmt) * block_width * block_height

RECURSIVE MipOffset(_, _, _, _)
MipOffset(fmt, width, height, i) ==
    IF i = 0 THEN 0
    ELSE MipOffset(fmt, width, height, i - 1) + MipSize(fmt, width, height, i - 1)

\* bytes a[lo:hi] of a Python bytes object
PySlice(a, lo, hi) == SubSeq(a, Min(lo, Len(a)) + 1, Min(hi, Len(a)))

\* lines 105-119: the slices, largest level first, then tex.data.reverse()
MipSlices(fmt, width, height, count, data) ==
    [i \in 1..count |->
        PySlice(data, MipOffset(fmt, width, height, i - 1),
                MipOffset(fmt, width, height, i - 1) + MipSize(fmt, width, height, i - 1))]
Reverse(q) == [k \in 1..Len(q) |-> q[Len(q) + 1 - k]]

RECURSIVE FloorLog2(_)
FloorLog2(n) == IF n <= 1 THEN 0 ELSE 1 + FloorLog2(n \div 2)

\* mutant of ExpectedMipMapCount: the + 1 left out
ExpectedMipMapCount_NoPlusOne(width, height) == FloorLog2(Max(width, height))

\* line 76: math.floor(math.log2(max(dwWidth, dwHeight))) + 1, for max >= 1
ExpectedMipMapCount(width, height) == FloorLog2(Max(width, height)) + 1

\* the payload a file of the given header would need, and the test payload
\* of n bytes (byte k differs from its neighbours)
DdsNeeded(pf, width, height, mips) ==
    LET fmt == IF pf.fourcc \in {"DXT1", "DXT5"} THEN pf.fourcc ELSE "BGRA8"
    IN  MipOffset(fmt, width, height, Max(mips, 1))
Payload(n) == [k \in 1..n |-> (37 * k + 11) % 256]

DdsInit ==
    /\ ddsPc = "header"
    /\ \E sig \in BOOLEAN, w \in 0..MaxDdsDim, h \in 0..MaxDdsDim, mips \in 0..MaxDdsMips,
          pf \in PixelFormats, len \in {"empty", "short", "exact", "long"} :
          LET need == DdsNeeded(pf, w, h, mips)
          IN  ddsIn = [signature_ok |-> sig, dwWidth |-> w, dwHeight |-> h,
                       dwMipMapCount |-> mips, ddspf |-> pf,
                       data |-> Payload(CASE len = "empty" -> 0
                                          [] len = "short" -> need - 1
                                          [] len = "exact" -> need
                                          [] len = "long"  -> need + 3)]
    /\ ddsErr = "none"
    /\ ddsTex = [format |-> "none", mipmaps |-> FALSE, data |-> <<>>, written |-> FALSE]
    /\ ddsCustom = [custom_rgba_format |-> FALSE, rgba_indices |-> <<-1, -1, -1, -1>>]
    /\ ddsData = [none |-> FALSE, bytes |-> <<>>]
    /\ ddsOut = <<>>

\* lines 9-41: the signature and the header; dds_data = bs.read(-1)
DdsReadHeader ==
    /\ ddsPc = "header"
    /\ IF ddsIn.signature_ok
       THEN ddsPc' = "format" /\ ddsErr' = ddsErr
                /\ ddsData' = [none |-> FALSE, bytes |-> ddsIn.data]
       ELSE ddsPc' = "raised" /\ ddsErr' = "Wrong signature DDS file"
                /\ ddsData' = ddsData
    /\ UNCHANGED <<ddsIn, ddsTex, ddsCustom, ddsOut>>
    /\ UNCHANGED ddsOthers

\* lines 52-73: tex.format from the pixel format; the channel masks
DdsPickFormat ==
    /\ ddsPc = "format"
    /\ LET pf == ddsIn.ddspf
           idx == <<mask_to_index(pf.r), mask_to_index(pf.g), mask_to_index(pf.b),
                    mask_to_index(pf.a)>>
           canonical == pf.b = Mask0 /\ pf.g = Mask1 /\ pf.r = Mask2 /\ pf.a = Mask3
           fail(e) == ddsPc' = "raised" /\ ddsErr' = e /\ UNCHANGED <<ddsTex, ddsCustom>>
           ok(fmt, custom) ==
               /\ ddsPc' = "mipmaps" /\ ddsErr' = ddsErr
               /\ ddsTex' = [ddsTex EXCEPT !.format = fmt]
               /\ ddsCustom' = custom
       IN  IF pf.fourcc \in {"DXT1", "DXT5"} THEN ok(pf.fourcc, ddsCustom)
           ELSE IF ~pf.flags41 THEN fail("Unsupported DDS format")
           ELSE IF pf.bits # 32 THEN fail("dwRGBBitCount is expected 32")
           ELSE IF canonical THEN ok("BGRA8", ddsCustom)
           ELSE IF \E k \in 1..4 : idx[k] = -2 THEN fail("KeyError")
           ELSE ok("BGRA8", [custom_rgba_format |-> TRUE, rgba_indices |-> idx])
    /\ UNCHANGED <<ddsIn, ddsData, ddsOut>>
    /\ UNCHANGED ddsOthers

\* lines 74-79: the mip-map count; math.log2(0) raises ValueError
DdsCheckMips ==
    /\ ddsPc = "mipmaps"
    /\ LET w == ddsIn.dwWidth
           h == ddsIn.dwHeight
       IN  IF ddsIn.dwMipMapCount > 1
           THEN IF Max(w, h) = 0
                THEN ddsPc' = "raised" /\ ddsErr' = "ValueError" /\ ddsTex' = ddsTex
                ELSE IF ddsIn.dwMipMapCount # ExpectedMipMapCount(w, h)
                THEN ddsPc' = "raised" /\ ddsErr' = "Wrong DDS mipmap count"
                         /\ ddsTex' = ddsTex
                ELSE ddsPc' = "convert" /\ ddsErr' = ddsErr
                         /\ ddsTex' = [ddsTex EXCEPT !.mipmaps = TRUE]
           ELSE ddsPc' = "convert" /\ ddsErr' = ddsErr /\ ddsTex' = ddsTex
    /\ UNCHANGED <<ddsIn, ddsCustom, ddsData, ddsOut>>
    /\ UNCHANGED ddsOthers

\* lines 81-91: the channel reorder.  new_data starts as None, so the first
\* new_data += struct.pack(...) raises TypeError; a last pixel of fewer bytes
\* than an index reaches raises IndexError before that; with no pixel at all
\* dds_data becomes None
DdsConvert ==
    /\ ddsPc = "convert"
    /\ LET n == Len(ddsData.bytes)
           top == 1 + Max(Max(ddsCustom.rgba_indices[1], ddsCustom.rgba_indices[2]),
                          Max(ddsCustom.rgba_indices[3], ddsCustom.rgba_indices[4]))
       IN  IF ~ddsCustom.custom_rgba_format
           THEN ddsPc' = "slice" /\ ddsErr' = ddsErr /\ ddsData' = ddsData
           ELSE IF n = 0
           THEN ddsPc' = "slice" /\ ddsErr' = ddsErr
                    /\ ddsData' = [none |-> TRUE, bytes |-> <<>>]
           ELSE IF n < top
           THEN ddsPc' = "raised" /\ ddsErr' = "IndexError" /\ ddsData' = ddsData
           ELSE ddsPc' = "raised" /\ ddsErr' = "TypeError" /\ ddsData' = ddsData
    /\ UNCHANGED <<ddsIn, ddsTex, ddsCustom, ddsOut>>
    /\ UNCHANGED ddsOthers

\* lines 93-121: tex.data, one entry per mip level, smallest level first
DdsSlice ==
    /\ ddsPc = "slice"
    /\ IF ddsTex.mipmaps
       THEN IF ddsData.none
            THEN ddsPc' = "raised" /\ ddsErr' = "TypeError" /\ ddsTex' = ddsTex
            ELSE /\ ddsPc' = "write" /\ ddsErr' = ddsErr
                 /\ ddsTex' = [ddsTex EXCEPT !.data =
                        Reverse(MipSlices(ddsTex.format, ddsIn.dwWidth, ddsIn.dwHeight,
                                          ddsIn.dwMipMapCount, ddsData.bytes))]
       ELSE /\ ddsPc' = "write" /\ ddsErr' = ddsErr
            /\ ddsTex' = [ddsTex EXCEPT !.data = <<ddsData.bytes>>]
    /\ UNCHANGED <<ddsIn, ddsCustom, ddsData, ddsOut>>
    /\ UNCHANGED ddsOthers

\* line 124: tex.write(tex_path); writing None to the stream raises TypeError
DdsWriteTex ==
    /\ ddsPc = "write"
    /\ IF ddsData.none
       THEN ddsPc' = "raised" /\ ddsErr' = "TypeError" /\ ddsTex' = ddsTex
       ELSE ddsPc' = "tex_written" /\ ddsErr' = ddsErr
                /\ ddsTex' = [ddsTex EXCEPT !.written = TRUE]
    /\ UNCHANGED <<ddsIn, ddsCustom, ddsData, ddsOut>>
    /\ UNCHANGED ddsOthers

\* mutant of TexDataToDds: the levels emitted in storage order
TexDataToDds_NotReversed(tex) == Concat(tex.data)

\* lines 207-212 of tex_to_dds_bytes: the payload written after the header
TexDataToDds(tex) == IF tex.mipmaps THEN Concat(Reverse(tex.data)) ELSE tex.data[1]

\* tex_to_dds_bytes on the tex that dds2tex built
DdsTexToDds ==
    /\ ddsPc = "tex_written"
    /\ ddsOut' = TexDataToDds(ddsTex)
    /\ ddsPc' = "dds_rebuilt"
    /\ UNCHANGED <<ddsIn, ddsErr, ddsTex, ddsCustom, ddsData>>
    /\ UNCHANGED ddsOthers

DdsNext ==
    \/ DdsReadHeader \/ DdsPickFormat \/ DdsCheckMips \/ DdsConvert \/ DdsSlice
    \/ DdsWriteTex \/ DdsTexToDds

(***************************************************************************)
(* Claims on dds2tex / tex_to_dds_bytes (SpecDds).                         *)
(***************************************************************************)
\* the four masks are a permutation of the single-byte masks, not B,G,R,A
NonCanonicalPermutation(pf) ==
    /\ pf.fourcc = "none" /\ pf.flags41 /\ pf.bits = 32
    /\ {pf.r, pf.g, pf.b, pf.a} = ByteMasks
    /\ ~(pf.b = Mask0 /\ pf.g = Mask1 /\ pf.r = Mask2 /\ pf.a = Mask3)

\* every 4-byte pixel reordered to B, G, R, A by the mask-to-byte-index table
RemappedToBGRA(data, pf) ==
    [k \in 1..Len(data) |->
        LET base == 4 * ((k - 1) \div 4)
            lane == (k - 1) % 4
            src == CASE lane = 0 -> mask_to_index(pf.b) [] lane = 1 -> mask_to_index(pf.g)
                     [] lane = 2 -> mask_to_index(pf.r) [] OTHER -> mask_to_index(pf.a)
        IN  data[base + src + 1]]

\* C4 (as claimed): on an uncompressed 32-bit DDS whose masks are a
\* non-canonical permutation of the four single-byte masks, dds2tex completes
\* and its pixel data is the input reordered to B,G,R,A; it does not fail.
C4_CustomMasksRemapped ==
    (/\ ddsIn.signature_ok /\ NonCanonicalPermutation(ddsIn.ddspf)
     /\ ddsIn.dwMipMapCount <= 1 /\ Len(ddsIn.data) % 4 = 0 /\ Len(ddsIn.data) > 0)
    => /\ ddsPc # "raised"
       /\ ddsPc \in {"slice", "write", "tex_written", "dds_rebuilt"}
             => ddsData.bytes = RemappedToBGRA(ddsIn.data, ddsIn.ddspf)

\* dwMipMapCount > 1 and different from floor(log2(max(width, height))) + 1:
\* no e = dwMipMapCount with 2^(e-1) <= max(width, height) < 2^e
MipCountMismatch(in) ==
    /\ in.dwMipMapCount > 1
    /\ ~(/\ Pow2(in.dwMipMapCount - 1) <= Max(in.dwWidth, in.dwHeight)
         /\ Max(in.dwWidth, in.dwHeight) < Pow2(in.dwMipMapCount))

\* C5: dds2tex raises, with no TEX output written, whenever dwMipMapCount > 1
\* differs from floor(log2(max(width, height))) + 1; with a count of 0 or 1 or
\* the expected count it does not raise for this reason.
C5_MipCountMismatchRaises ==
    /\ (MipCountMismatch(ddsIn) /\ ddsPc \notin {"header", "format", "mipmaps"})
          => (ddsPc = "raised" /\ ~ddsTex.written /\ ddsOut = <<>>)
    /\ ddsErr \in {"Wrong DDS mipmap count", "ValueError"} => MipCountMismatch(ddsIn)
    /\ (ddsPc = "convert" /\ ddsIn.dwMipMapCount > 1) => ddsTex.mipmaps

\* C5 witnesses: a 3x2 DXT1 file declaring 3 mip levels (2 expected) was
\* rejected
C5_Witness ==
    /\ ddsPc = "raised" /\ ddsErr = "Wrong DDS mipmap count"
    /\ ddsIn.dwMipMapCount = 3 /\ ddsIn.dwWidth = 3 /\ ddsIn.dwHeight = 2

\* C6: for a DDS with n >= 2 valid mip levels, tex.data holds the levels
\* sliced largest-first in reversed order (level i at position n - i), and
\* tex_to_dds_bytes emits them in the original order: its payload is
\* byte-for-byte the part of the DDS payload that was sliced.
C6_MipOrderSymmetric ==
    (ddsPc = "dds_rebuilt" /\ ddsTex.mipmaps)
    => LET n == ddsIn.dwMipMapCount
           off(i) == MipOffset(ddsTex.format, ddsIn.dwWidth, ddsIn.dwHeight, i)
       IN  /\ n >= 2
           /\ Len(ddsTex.data) = n
           /\ \A i \in 0..(n - 1) :
                 ddsTex.data[n - i] = PySlice(ddsIn.data, off(i), off(i + 1))
           /\ ddsOut = PySlice(ddsIn.data, 0, off(n))

\* C6 witness: a complete 4x4 three-level BGRA8 payload went through both
\* directions
C6_Witness ==
    /\ ddsPc = "dds_rebuilt" /\ ddsTex.mipmaps /\ ddsIn.dwMipMapCount = 3
    /\ ddsTex.format = "BGRA8" /\ Len(ddsIn.data) = 84
    /\ Len(ddsTex.data[1]) = 4 /\ Len(ddsTex.data[3]) = 64

(***************************************************************************)
(* DXT5 block codec: LtMAO/Ritoddstex.py compress_dxt5_block_flat and      *)
(* decompress_dxt5_block.  A texel is <<r, g, b, a>>; the encoder's input  *)
(* floats are the 8-bit values divided by 255.                             *)
(***************************************************************************)
\* lines 629-630: int(pixels[k]*255) of the float v/255
ToByte(v) == (v * 255) \div 255

\* lines 626-633: texel i (0-based) of the flat list, zeros when the list is short
BlkTexel(pixels, i) ==
    IF i < Len(pixels) THEN [c \in 1..4 |-> ToByte(pixels[i + 1][c])] ELSE <<0, 0, 0, 0>>

\* mutant: equal endpoints take the six-step branch
AlphaPalette_SixWhenEqual(a0, a1) ==
    IF a0 >= a1
    THEN <<a0, a1>> \o [i \in 1..6 |-> ((7 - i) * a0 + i * a1) \div 7]
    ELSE <<a0, a1>> \o [i \in 1..4 |-> ((5 - i) * a0 + i * a1) \div 5] \o <<0, 255>>

\* lines 268-274 (decoder) and 640-644 (encoder): the 8-entry alpha palette
AlphaPalette(a0, a1) ==
    IF a0 > a1
    THEN <<a0, a1>> \o [i \in 1..6 |-> ((7 - i) * a0 + i * a1) \div 7]
    ELSE <<a0, a1>> \o [i \in 1..4 |-> ((5 - i) * a0 + i * a1) \div 5] \o <<0, 255>>

\* lines 648-652, 680-685: index (0-based) of the first smallest distance
FirstBest(ds) ==
    (CHOOSE j \in 1..Len(ds) :
        \A k \in 1..Len(ds) : ds[j] < ds[k] \/ (ds[j] = ds[k] /\ j <= k)) - 1

Abs(x) == IF x < 0 THEN -x ELSE x

\* lines 653-654, 686-687: the 16 w-bit indices or-ed into one little-endian
\* integer, as nbytes bytes
PackIndices(idx, w, nbytes) ==
    [j \in 1..nbytes |->
        LET bit(k) == (idx[(k \div w) + 1] \div Pow2(k % w)) % 2
            b(t) == bit(8 * (j - 1) + t) * Pow2(t)
        IN  b(0) + b(1) + b(2) + b(3) + b(4) + b(5) + b(6) + b(7)]

\* lines 297, 300: (bits >> (w*i)) & (2^w - 1) of the little-endian integer
UnpackIndex(bytes, w, i) ==
    LET bit(k) == (bytes[(k \div 8) + 1] \div Pow2(k % 8)) % 2
    IN  bit(w * i) + 2 * bit(w * i + 1) + (IF w = 3 THEN 4 * bit(w * i + 2) ELSE 0)

\* lines 666-667: ((r>>3)<<11) | ((g>>2)<<5) | (b>>3); the fields do not overlap
Pack565(p) == (p[1] \div 8) * 2048 + (p[2] \div 4) * 32 + (p[3] \div 8)

\* mutant: the 565 fields widened to 8 bits without replicating the high bits
Expand565_NoReplicate(c) ==
    <<((c \div 2048) % 32) * 8, ((c \div 32) % 64) * 4, (c % 32) * 8>>

\* lines 281-285 (decoder) and 674-678 (encoder): 565 back to 8 bits per channel
Expand565(c) ==
    LET r0 == ((c \div 2048) % 32) * 8
        g0 == ((c \div 32) % 64) * 4
        b0 == (c % 32) * 8
    IN  <<r0 + (r0 \div 32), g0 + (g0 \div 64), b0 + (b0 \div 32)>>

\* lines 287-291 (decoder) and 680 (encoder): the four-colour palette
ColorPalette(i0, i1) ==
    LET e0 == Expand565(i0)
        e1 == Expand565(i1)
    IN  <<e0, e1, [c \in 1..3 |-> (2 * e0[c] + e1[c]) \div 3],
                  [c \in 1..3 |-> (e0[c] + 2 * e1[c]) \div 3]>>

\* lines 635-655: the 8 alpha bytes
AlphaBlock(texels) ==
    LET alphas == [i \in 1..16 |-> texels[i][4]]
        max_a == CHOOSE a \in {alphas[i] : i \in 1..16} : \A i \in 1..16 : alphas[i] <= a
        min_a == CHOOSE a \in {alphas[i] : i \in 1..16} : \A i \in 1..16 : alphas[i] >= a
        pal == AlphaPalette(max_a, min_a)
        best == [i \in 1..16 |-> FirstBest([j \in 1..8 |-> Abs(alphas[i] - pal[j])])]
    IN  <<max_a, min_a>> \o PackIndices(best, 3, 6)

\* lines 658-664: the first texel of smallest and of largest luminance
LumEndpoints(texels) ==
    LET lum == [i \in 1..16 |-> 2 * texels[i][1] + 4 * texels[i][2] + texels[i][3]]
    IN  [c0 |-> texels[FirstBest(lum) + 1],
         c1 |-> texels[FirstBest([i \in 1..16 |-> -lum[i]]) + 1]]

\* mutant: the endpoints stored as packed, lowest luminance first
StoredEndpoints_NoSwap(texels) ==
    LET e == LumEndpoints(texels)
    IN  <<Pack565(e.c0), Pack565(e.c1)>>

\* lines 666-668: the stored endpoints, swapped when i0 < i1
StoredEndpoints(texels) ==
    LET e == LumEndpoints(texels)
        i0 == Pack565(e.c0)
        i1 == Pack565(e.c1)
    IN  IF i0 < i1 THEN <<i1, i0>> ELSE <<i0, i1>>

\* lines 670-693: the 8 colour bytes
ColorBlock(texels) ==
    LET s == StoredEndpoints(texels)
        c_pal == ColorPalette(s[1], s[2])
        d(p, c) == (p[1] - c[1]) * (p[1] - c[1]) + (p[2] - c[2]) * (p[2] - c[2])
                   + (p[3] - c[3]) * (p[3] - c[3])
        best == [i \in 1..16 |-> FirstBest([j \in 1..4 |-> d(texels[i], c_pal[j])])]
    IN  U16LE(s[1]) \o U16LE(s[2]) \o PackIndices(best, 2, 4)

\* lines 623-693: compress_dxt5_block_flat
compress_dxt5_block_flat(pixels) ==
    LET texels == [i \in 1..16 |-> BlkTexel(pixels, i - 1)]
    IN  AlphaBlock(texels) \o ColorBlock(texels)

\* lines 261-305: decompress_dxt5_block
decompress_dxt5_block(block_data) ==
    IF Len(block_data) < 16 THEN [i \in 1..16 |-> <<0, 0, 0, 0>>]
    ELSE LET alphas == AlphaPalette(block_data[1], block_data[2])
             colors == ColorPalette(DecU16(SubSeq(block_data, 9, 10)), DecU16(SubSeq(block_data, 11, 12)))
         IN  [i \in 1..16 |->
                 colors[UnpackIndex(SubSeq(block_data, 13, 16), 2, i - 1) + 1]
                 \o <<alphas[UnpackIndex(SubSeq(block_data, 3, 8), 3, i - 1) + 1]>>]

\* the inputs explored: uniform blocks sweeping one channel over all 256
\* values, and blocks mixing two sample colours
SampleColours ==
    { <<0, 0, 0, 0>>, <<255, 255, 255, 255>>, <<255, 0, 0, 255>>, <<0, 255, 0, 200>>,
      <<8, 4, 8, 128>>, <<132, 66, 1, 77>> }

UniformColours ==
    { [c \in 1..4 |-> IF c = ch THEN v ELSE o[c]] :
        ch \in 1..4, v \in 0..MaxChannel, o \in [1..4 -> {0, MaxChannel}] }

BlockInputs ==
    { [i \in 1..16 |-> p] : p \in UniformColours }
    \cup { [i \in 1..16 |-> IF i <= 8 THEN p ELSE q] : p, q \in SampleColours }
    \cup { [i \in 1..16 |-> IF i % 2 = 1 THEN p ELSE q] : p, q \in SampleColours }
    \cup { [i \in 1..15 |-> p] : p \in SampleColours }

BlkInit ==
    /\ blkPc = "start"
    /\ blkPixels \in BlockInputs
    /\ blkBytes = <<>>
    /\ blkOut = <<>>

BlkEncode ==
    /\ blkPc = "start"
    /\ blkBytes' = compress_dxt5_block_flat(blkPixels)
    /\ blkPc' = "encoded"
    /\ UNCHANGED <<blkPixels, blkOut, blkOthers>>

\* the decoder is handed the block, or a block cut short
BlkDecode ==
    /\ blkPc = "encoded"
    /\ \E n \in {15, 16} :
          /\ blkOut' = decompress_dxt5_block(SubSeq(blkBytes, 1, n))
          /\ blkPc' = IF n < 16 THEN "decoded_short" ELSE "decoded"
    /\ UNCHANGED <<blkPixels, blkBytes, blkOthers>>

BlkNext == BlkEncode \/ BlkDecode

\* blocks handed to the decoder alone: any two alpha endpoints, texel k
\* (0-based) carrying alpha index k mod 8, colours zero
RampIndices == PackIndices([k \in 1..16 |-> (k - 1) % 8], 3, 6)
RampBlock(a0, a1) == <<a0, a1>> \o RampIndices \o <<0, 0, 0, 0, 0, 0, 0, 0>>

BlkDecInit ==
    /\ blkPc = "encoded"
    /\ blkPixels = <<>>
    /\ \E a0, a1 \in 0..MaxChannel : blkBytes = RampBlock(a0, a1)
    /\ blkOut = <<>>

BlkDecNext == BlkDecode

(***************************************************************************)
(* Claims on the block codec (SpecBlk).                                    *)
(***************************************************************************)
UniformBlock == Len(blkPixels) = 16 /\ \A i \in 1..16 : blkPixels[i] = blkPixels[1]

\* C7 (as claimed): a uniform block of any 8-bit colour decodes to 16 texels
\* equal to that colour.
C7_UniformRoundTripExact ==
    (blkPc = "decoded" /\ UniformBlock) => \A i \in 1..16 : blkOut[i] = blkPixels[1]

\* C7 (amended): a uniform block of colour (r,g,b,a) decodes to 16 equal
\* texels whose alpha is a and whose colour is the 565 quantisation of
\* (r,g,b) with the high bits replicated: 8*(r div 8) + r div 32,
\* 4*(g div 4) + g div 64, 8*(b div 8) + b div 32; each channel is within 7
\* (red, blue) or 3 (green) of the input and the round trip is exact exactly
\* when r mod 8 = r div 32, g mod 4 = g div 64 and b mod 8 = b div 32.
C7_UniformRoundTripQuantised ==
    (blkPc = "decoded" /\ UniformBlock)
    => LET p == blkPixels[1]
           q == <<8 * (p[1] \div 8) + (p[1] \div 32), 4 * (p[2] \div 4) + (p[2] \div 64),
                  8 * (p[3] \div 8) + (p[3] \div 32), p[4]>>
       IN  /\ \A i \in 1..16 : blkOut[i] = q
           /\ Abs(q[1] - p[1]) <= 7 /\ Abs(q[2] - p[2]) <= 3 /\ Abs(q[3] - p[3]) <= 7
           /\ (q = p) <=> (/\ p[1] % 8 = p[1] \div 32 /\ p[2] % 4 = p[2] \div 64
                           /\ p[3] % 8 = p[3] \div 32)

\* C7 witness: the uniform block of colour (255, 1, 0, 255) was decoded, with
\* red exact and green quantised to 0
C7_Witness ==
    /\ blkPc = "decoded" /\ UniformBlock /\ blkPixels[1] = <<255, 1, 0, 255>>
    /\ blkOut[16] = <<255, 0, 0, 255>>

\* the alpha palette seen through the decoder: texel k of a ramp block
\* carries palette entry k - 1
DecodedAlphaPalette == [k \in 1..8 |-> blkOut[k][4]]

\* C14: with a0 > a1 the palette decoded is a0, a1, then six values that
\* never increase and lie between a1 and a0 (strictly decreasing for 255, 0);
\* with a0 <= a1 it is a0, a1, four interpolated values, 0, 255.
C14_AlphaPaletteRamp ==
    (blkPc = "decoded" /\ SubSeq(blkBytes, 3, 8) = RampIndices) =>
        LET a0 == blkBytes[1]
            a1 == blkBytes[2]
            pal == DecodedAlphaPalette
        IN  /\ pal[1] = a0 /\ pal[2] = a1
            /\ \A k \in 9..16 : blkOut[k][4] = pal[k - 8]
            /\ a0 > a1 =>
                  /\ \A k \in 3..8 : a1 <= pal[k] /\ pal[k] <= a0
                  /\ \A k \in 3..7 : pal[k + 1] <= pal[k]
                  /\ pal[3] <= a0 /\ pal[8] >= a1
                  /\ (a0 = 255 /\ a1 = 0) =>
                        /\ \A k \in 3..7 : pal[k + 1] < pal[k]
                        /\ pal[3] < 255 /\ pal[8] > 0
            /\ a0 <= a1 =>
                  /\ pal[7] = 0 /\ pal[8] = 255
                  /\ \A k \in 3..6 : a0 <= pal[k] /\ pal[k] <= a1
                  /\ \A k \in 3..5 : pal[k] <= pal[k + 1]

\* C14 witness: the block with endpoints 255, 0 was decoded to the ramp
\* 255, 0, 218, 182, 145, 109, 72, 36
C14_Witness ==
    /\ blkPc = "decoded" /\ blkBytes = RampBlock(255, 0)
    /\ DecodedAlphaPalette = <<255, 0, 218, 182, 145, 109, 72, 36>>

\* the four colours decompress_dxt5_block derives from two stored endpoints:
\* the first four texels of a block whose texel k carries colour index k mod 4
DecoderColours(c0, c1) ==
    LET probe == <<0, 0>> \o Zeros(6) \o U16LE(c0) \o U16LE(c1)
                 \o PackIndices([k \in 1..16 |-> (k - 1) % 4], 2, 4)
        out == decompress_dxt5_block(probe)
    IN  [k \in 1..4 |-> SubSeq(out[k], 1, 3)]

SquaredDistance(p, c) ==
    (p[1] - c[1]) * (p[1] - c[1]) + (p[2] - c[2]) * (p[2] - c[2])
    + (p[3] - c[3]) * (p[3] - c[3])

\* C22: the colour block stores c0 >= c1 as unsigned 565 values, the two
\* being the packed texels of lowest and highest luminance, and each 2-bit
\* index is the first nearest entry of the palette the decoder derives from
\* the stored bytes: the encoder chose its indices against that palette.
C22_EndpointsOrderedPaletteShared ==
    blkPc = "encoded" =>
        LET c0 == DecU16(SubSeq(blkBytes, 9, 10))
            c1 == DecU16(SubSeq(blkBytes, 11, 12))
            e == LumEndpoints([i \in 1..16 |-> BlkTexel(blkPixels, i - 1)])
        IN  /\ Len(blkBytes) = 16
            /\ c0 >= c1
            /\ {c0, c1} = {Pack565(e.c0), Pack565(e.c1)}
            /\ \A pal \in {DecoderColours(c0, c1)}, i \in 1..16 :
                  LET p == BlkTexel(blkPixels, i - 1)
                      k == UnpackIndex(SubSeq(blkBytes, 13, 16), 2, i - 1) + 1
                  IN  \A j \in 1..4 :
                        /\ SquaredDistance(p, pal[k]) <= SquaredDistance(p, pal[j])
                        /\ j < k => SquaredDistance(p, pal[k]) < SquaredDistance(p, pal[j])

\* C22 witness: a block of eight black then eight white texels was encoded;
\* black, of lowest luminance, packs to 0, so the endpoints were swapped
C22_Witness ==
    /\ blkPc = "encoded"
    /\ blkPixels = [i \in 1..16 |-> IF i <= 8 THEN <<0, 0, 0, 0>> ELSE <<255, 255, 255, 255>>]
    /\ SubSeq(blkBytes, 9, 12) = <<255, 255, 0, 0>>
    /\ SubSeq(blkBytes, 13, 16) = <<85, 85, 0, 0>>

(***************************************************************************)
(* ANM v4 writer and reader: io/export_anm.py write_anm and the            *)
(* 'r3d2anmd' version 4 branch of io/import_anm.py read_anm.               *)
(* A vector is <<x, y, z>>, a quaternion [w, x, y, z], over the float      *)
(* values of F32LE.                                                        *)
(***************************************************************************)
\* struct.unpack('<f', b)[0]; "other" for a bit pattern outside the model's values
DecF32(b) ==
    LET known == {"0.0", "1.0", "-1.0", "2.1", "1.00000012", "0.033333335", "0.041666668"}
    IN  IF \E x \in known : F32LE(x) = b THEN CHOOSE x \in known : F32LE(x) = b
        ELSE "other"

\* round(x, 6)
Round6(x) == IF x = "1.00000012" THEN "1.0" ELSE x

\* 1.0 / fps
FrameDuration(fps) == IF fps = 30 THEN "0.033333335" ELSE "0.041666668"

\* the values (t * scale, s, r) that decompose() yields for a bone at a frame
AnmPoses ==
    { [t |-> <<"0.0", "0.0", "0.0">>, s |-> <<"1.0", "1.0", "1.0">>,
       r |-> [w |-> "1.0", x |-> "0.0", y |-> "0.0", z |-> "0.0"]],
      [t |-> <<"1.0", "2.1", "-1.0">>, s |-> <<"1.0", "1.0", "1.0">>,
       r |-> [w |-> "0.0", x |-> "1.0", y |-> "0.0", z |-> "0.0"]],
      [t |-> <<"1.00000012", "2.1", "-1.0">>, s |-> <<"1.0", "1.0", "1.0">>,
       r |-> [w |-> "1.00000012", x |-> "0.0", y |-> "0.0", z |-> "0.0"]] }

\* mutant: every call appends, and the key is moved to the new entry
add_to_vec_palette_AlwaysAppend(pal, v) ==
    LET key == <<Round6(v[1]), Round6(v[2]), Round6(v[3])>>
    IN  [pal |-> [pal EXCEPT !.vec_map = [k \in DOMAIN pal.vec_map \cup {key} |->
                                  IF k = key THEN Len(pal.vec_palette) ELSE pal.vec_map[k]],
                              !.vec_palette = Append(pal.vec_palette, v)],
         id |-> Len(pal.vec_palette)]
\* lines 36-41: add_to_vec_palette, returning the palette state and the index
add_to_vec_palette(pal, v) ==
    LET key == <<Round6(v[1]), Round6(v[2]), Round6(v[3])>>
    IN  IF key \notin DOMAIN pal.vec_map
        THEN [pal |-> [pal EXCEPT !.vec_map = [k \in DOMAIN pal.vec_map \cup {key} |->
                                      IF k = key THEN Len(pal.vec_palette) ELSE pal.vec_map[k]],
                                  !.vec_palette = Append(pal.vec_palette, v)],
              id |-> Len(pal.vec_palette)]
        ELSE [pal |-> pal, id |-> pal.vec_map[key]]

\* q.normalized(): q divided by its length; of the model's quaternions only
\* (w 1.00000012, 0, 0, 0) is not of length 1.0 in single precision
Normalized(q) ==
    IF q = [w |-> "1.00000012", x |-> "0.0", y |-> "0.0", z |-> "0.0"]
    THEN [w |-> "1.0", x |-> "0.0", y |-> "0.0", z |-> "0.0"]
    ELSE q

\* lines 43-49: add_to_quat_palette; line 44 rebinds q to q.normalized(), so
\* the key and the entry appended are those of the normalised quaternion
add_to_quat_palette(pal, q0) ==
    LET q == Normalized(q0)
        key == <<Round6(q.x), Round6(q.y), Round6(q.z), Round6(q.w)>>
    IN  IF key \notin DOMAIN pal.quat_map
        THEN [pal |-> [pal EXCEPT !.quat_map = [k \in DOMAIN pal.quat_map \cup {key} |->
                                      IF k = key THEN Len(pal.quat_palette) ELSE pal.quat_map[k]],
                                  !.quat_palette = Append(pal.quat_palette, q)],
              id |-> Len(pal.quat_palette)]
        ELSE [pal |-> pal, id |-> pal.quat_map[key]]

\* sorted(joint_data.keys())
RECURSIVE SortedHashes(_)
SortedHashes(S) ==
    IF S = {} THEN <<>>
    ELSE LET m == CHOOSE x \in S : \A y \in S : x <= y
         IN  <<m>> \o SortedHashes(S \ {m})

\* mutant: the section offsets stored without the 12-byte bias
SectionOffset_NoBias(tell) == tell
\* lines 184, 190: quat_offset = bs.tell() - 12, frame_offset = bs.tell() - 12
SectionOffset(tell) == tell - 12

\* lines 161-177: the header up to the padding, 76 bytes
AnmHeaderBytes(track_count, frame_count, fps) ==
    <<114, 51, 100, 50, 97, 110, 109, 100>> \o U32LE(4) \o U32LE(0)
    \o <<211, 148, 7, 190>> \o U32LE(0) \o U32LE(0)
    \o U32LE(track_count) \o U32LE(frame_count) \o F32LE(FrameDuration(fps))
    \o I32LE(0) \o I32LE(0) \o I32LE(0)
    \o I32LE(64) \o I32LE(0) \o I32LE(0) \o Zeros(12)

\* lines 180-181, 187-188: the palettes as written
VecBytes(v) == F32LE(v[1]) \o F32LE(v[2]) \o F32LE(v[3])
QuatBytes(q) == F32LE(q.x) \o F32LE(q.y) \o F32LE(q.z) \o F32LE(q.w)

\* lines 193-202: the frame records, frame-major over the sorted hashes
AnmFrameBytes(joint_data, frame_count) ==
    LET sorted_hashes == SortedHashes(DOMAIN joint_data)
        rec(f_idx, h) ==
            LET frames == joint_data[h]
                ids == IF f_idx < Len(frames) THEN frames[f_idx + 1] ELSE <<0, 0, 0>>
            IN  U32LE(h) \o U16LE(ids[1]) \o U16LE(ids[2]) \o U16LE(ids[3]) \o U16LE(0)
    IN  Concat([k \in 1..(frame_count * Len(sorted_hashes)) |->
                  rec((k - 1) \div Len(sorted_hashes),
                      sorted_hashes[((k - 1) % Len(sorted_hashes)) + 1])])

AnmBoneLists ==
    { bs \in UNION { [1..n -> SklNames \ {<<76, 95, 120>>}] : n \in 0..MaxAnmBones } :
        \A i, j \in DOMAIN bs : i # j => bs[i] # bs[j] }

\* outside the collection loop: no pass made
AnmNoLast ==
    [called |-> FALSE, t |-> <<"0.0", "0.0", "0.0">>, s |-> <<"0.0", "0.0", "0.0">>,
     r |-> [w |-> "1.0", x |-> "0.0", y |-> "0.0", z |-> "0.0"], ids |-> <<0, 0, 0>>]

AnmNoRead ==
    [file |-> <<>>, track_count |-> 0, frame_count |-> 0, vecs_offset |-> 0, quats_offset |-> 0,
     frames_offset |-> 0, vec_palette |-> <<>>, quat_palette |-> <<>>, records |-> <<>>]

AnmInit ==
    /\ anmPc = "start"
    /\ \E act \in BOOLEAN, bones \in AnmBoneLists, fc \in 1..MaxAnmFrames, fps \in {24, 30} :
          anmIn = [has_action |-> act, bones |-> bones, frame_count |-> fc, fps |-> fps]
    /\ anmErr = "none"
    /\ anmLoop = [f_idx |-> 0, bone |-> 1]
    /\ anmPal = [vec_palette |-> <<>>, vec_map |-> <<>>, quat_palette |-> <<>>,
                 quat_map |-> <<>>]
    /\ anmJointData = <<>>
    /\ anmFile = <<>> /\ anmPos = 0
    /\ anmOffsets = [quat_offset |-> 0, frame_offset |-> 0]
    /\ anmRead = AnmNoRead
    /\ anmLast = AnmNoLast

\* lines 12-13
AnmStart ==
    /\ anmPc = "start"
    /\ IF anmIn.has_action
       THEN anmPc' = "collect" /\ anmErr' = anmErr
       ELSE anmPc' = "raised" /\ anmErr' = "No animation data found on armature"
    /\ UNCHANGED <<anmIn, anmLoop, anmPal, anmJointData, anmFile, anmPos, anmOffsets,
                   anmRead, anmLast,
                   anmOthers>>

\* mutant: the triple is appended for every bone, whatever the track holds
AppendFrame_Always(joint_data, h, f_idx, ids) ==
    LET jd == IF h \in DOMAIN joint_data THEN joint_data
              ELSE [k \in DOMAIN joint_data \cup {h} |-> IF k = h THEN <<>> ELSE joint_data[k]]
    IN  [jd EXCEPT ![h] = Append(@, ids)]
\* lines 145-149: the track of h is created when missing, and the triple is
\* appended only when the track holds exactly f_idx frames
AppendFrame(joint_data, h, f_idx, ids) ==
    LET jd == IF h \in DOMAIN joint_data THEN joint_data
              ELSE [k \in DOMAIN joint_data \cup {h} |-> IF k = h THEN <<>> ELSE joint_data[k]]
    IN  IF Len(jd[h]) = f_idx THEN [jd EXCEPT ![h] = Append(@, ids)] ELSE jd

\* lines 105-149: one bone of one frame
AnmCollectBone ==
    /\ anmPc = "collect"
    /\ anmLoop.f_idx < anmIn.frame_count /\ anmLoop.bone <= Len(anmIn.bones)
    /\ \E pose \in AnmPoses :
          LET a1 == add_to_vec_palette(anmPal, pose.t)
              a2 == add_to_vec_palette(a1.pal, pose.s)
              a3 == add_to_quat_palette(a2.pal, pose.r)
              h == Elf(CleanName(anmIn.bones[anmLoop.bone]))
          IN  /\ anmPal' = a3.pal
              /\ anmLast' = [called |-> TRUE, t |-> pose.t, s |-> pose.s, r |-> pose.r,
                             ids |-> <<a1.id, a2.id, a3.id>>]
              /\ anmJointData' = AppendFrame(anmJointData, h, anmLoop.f_idx,
                                              <<a1.id, a2.id, a3.id>>)
    /\ anmLoop' = IF anmLoop.bone = Len(anmIn.bones)
                  THEN [f_idx |-> anmLoop.f_idx + 1, bone |-> 1]
                  ELSE [anmLoop EXCEPT !.bone = @ + 1]
    /\ UNCHANGED <<anmPc, anmIn, anmErr, anmFile, anmPos, anmOffsets, anmRead, anmOthers>>

\* lines 157-177: the loop is over; open the file and write the header
AnmWriteHeader ==
    /\ anmPc = "collect"
    /\ anmLoop.f_idx = anmIn.frame_count \/ anmIn.bones = <<>>
    /\ anmFile' = AnmHeaderBytes(Cardinality(DOMAIN anmJointData), anmIn.frame_count,
                                 anmIn.fps)
    /\ anmPos' = Len(anmFile')
    /\ anmPc' = "palettes"
    /\ anmLast' = AnmNoLast
    /\ UNCHANGED <<anmIn, anmErr, anmLoop, anmPal, anmJointData, anmOffsets, anmRead,
                   anmOthers>>

\* lines 179-190
AnmWritePalettes ==
    /\ anmPc = "palettes"
    /\ LET vecs == Concat([i \in 1..Len(anmPal.vec_palette) |-> VecBytes(anmPal.vec_palette[i])])
           quats == Concat([i \in 1..Len(anmPal.quat_palette) |->
                              QuatBytes(anmPal.quat_palette[i])])
       IN  /\ anmFile' = WriteAt(WriteAt(anmFile, anmPos, vecs), anmPos + Len(vecs), quats)
           /\ anmOffsets' = [quat_offset |-> SectionOffset(anmPos + Len(vecs)),
                             frame_offset |-> SectionOffset(anmPos + Len(vecs) + Len(quats))]
           /\ anmPos' = anmPos + Len(vecs) + Len(quats)
    /\ anmPc' = "frames"
    /\ UNCHANGED <<anmIn, anmErr, anmLoop, anmPal, anmJointData, anmRead, anmLast,
                   anmOthers>>

\* lines 192-202
AnmWriteFrames ==
    /\ anmPc = "frames"
    /\ LET bytes == AnmFrameBytes(anmJointData, anmIn.frame_count)
       IN  /\ anmFile' = WriteAt(anmFile, anmPos, bytes)
           /\ anmPos' = anmPos + Len(bytes)
    /\ anmPc' = "patch"
    /\ UNCHANGED <<anmIn, anmErr, anmLoop, anmPal, anmJointData, anmOffsets, anmRead,
                   anmLast, anmOthers>>

\* lines 204-211: total_size at 12, the two offsets at vecs_offset_pos + 4
AnmPatch ==
    /\ anmPc = "patch"
    /\ LET total_size == anmPos
           vecs_offset_pos == 52
       IN  /\ anmFile' = WriteAt(WriteAt(anmFile, 12, U32LE(total_size)),
                                 vecs_offset_pos + 4,
                                 I32LE(anmOffsets.quat_offset) \o I32LE(anmOffsets.frame_offset))
           /\ anmPos' = vecs_offset_pos + 12
    /\ anmPc' = "written"
    /\ UNCHANGED <<anmIn, anmErr, anmLoop, anmPal, anmJointData, anmOffsets, anmRead,
                   anmLast, anmOthers>>

\* the files given to read_anm: the file write_anm has produced and, for the
\* animations of one bone over two frames, that file damaged: the last 2, 3
\* or 12 bytes cut, the header cut after 12 or 40 bytes, a frame duration of
\* 0.0, a vecs_offset of -20, and a scale index of 200 in the first record
\* (also with the last record cut)
AnmReadFiles(f) ==
    LET n == Len(f)
        scale_idx_pos == DecI32(ReadAt(f, 60, 4)) + 12 + 6
    IN  {f} \cup
        (IF anmIn.frame_count = 2 /\ Len(anmIn.bones) = 1
         THEN { SubSeq(f, 1, n - 2), SubSeq(f, 1, n - 3), SubSeq(f, 1, n - 12),
                SubSeq(f, 1, 12), SubSeq(f, 1, 40),
                WriteAt(f, 36, Zeros(4)), WriteAt(f, 52, I32LE(-20)),
                WriteAt(f, scale_idx_pos, U16LE(200)),
                WriteAt(SubSeq(f, 1, n - 12), scale_idx_pos, U16LE(200)) }
         ELSE {})

\* import_anm.py lines 65-69, 180-190: open(filepath, 'rb'), magic, version
\* and the v4 header fields; a field read past the end of the file raises
\* struct.error, and a frame duration of zero raises at line 184
AnmReadHeader ==
    /\ anmPc = "written"
    /\ \E f \in AnmReadFiles(anmFile) :
        LET magic == ReadAt(f, 0, 8)
            frame_duration == ReadAt(f, 36, 4)
            raise(e) == /\ anmPc' = "raised" /\ anmErr' = e
                        /\ anmRead' = [anmRead EXCEPT !.file = f]
                        /\ anmPos' = anmPos
        IN  IF \E j \in 1..Len(magic) : magic[j] >= 128
            THEN raise("UnicodeDecodeError")
            ELSE IF Len(f) < 12 THEN raise("struct.error")
            ELSE IF ~(magic = <<114, 51, 100, 50, 97, 110, 109, 100>>
                      /\ DecU32(ReadAt(f, 8, 4)) = 4)
            THEN /\ anmPc' = "other_format" /\ anmErr' = anmErr
                 /\ anmRead' = [anmRead EXCEPT !.file = f]
                 /\ anmPos' = anmPos
            ELSE IF Len(f) < 40 THEN raise("struct.error")
            ELSE IF frame_duration \in {Zeros(4), <<0, 0, 0, 128>>}
            THEN raise("ZeroDivisionError")
            ELSE IF Len(f) < 64 THEN raise("struct.error")
            ELSE /\ anmRead' = [anmRead EXCEPT
                       !.file = f,
                       !.track_count = DecU32(ReadAt(f, 28, 4)),
                       !.frame_count = DecU32(ReadAt(f, 32, 4)),
                       !.vecs_offset = DecI32(ReadAt(f, 52, 4)),
                       !.quats_offset = DecI32(ReadAt(f, 56, 4)),
                       !.frames_offset = DecI32(ReadAt(f, 60, 4))]
                 /\ anmPos' = 64
                 /\ anmPc' = "read_palettes" /\ anmErr' = anmErr
    /\ UNCHANGED <<anmIn, anmLoop, anmPal, anmJointData, anmFile, anmOffsets,
                   anmLast,
                   anmOthers>>

\* lines 192-203: both palettes; each entry is read on its own, so the first
\* one past the end of the file raises struct.error; a seek to a negative
\* position (lines 192, 197) raises OSError
AnmReadPalettes ==
    /\ anmPc = "read_palettes"
    /\ LET f == anmRead.file
           vec_count == (anmRead.quats_offset - anmRead.vecs_offset) \div 12
           quat_count == (anmRead.frames_offset - anmRead.quats_offset) \div 16
           vpos(i) == anmRead.vecs_offset + 12 + 12 * (i - 1)
           qpos(i) == anmRead.quats_offset + 12 + 16 * (i - 1)
           fl(pos) == DecF32(ReadAt(f, pos, 4))
           raise(e) == /\ anmPc' = "raised" /\ anmErr' = e
                       /\ UNCHANGED <<anmRead, anmPos>>
       IN  IF anmRead.vecs_offset + 12 < 0 THEN raise("OSError")
           ELSE IF vec_count > 0 /\ vpos(vec_count) + 12 > Len(f)
           THEN raise("struct.error")
           ELSE IF anmRead.quats_offset + 12 < 0 THEN raise("OSError")
           ELSE IF quat_count > 0 /\ qpos(quat_count) + 16 > Len(f)
           THEN raise("struct.error")
           ELSE /\ anmRead' = [anmRead EXCEPT
                      !.vec_palette = [i \in 1..Max(vec_count, 0) |->
                          <<fl(vpos(i)), fl(vpos(i) + 4), fl(vpos(i) + 8)>>],
                      !.quat_palette = [i \in 1..Max(quat_count, 0) |->
                          LET q == <<fl(qpos(i)), fl(qpos(i) + 4), fl(qpos(i) + 8),
                                     fl(qpos(i) + 12)>>
                          IN  [w |-> q[4], x |-> q[1], y |-> q[2], z |-> q[3]]]]
                /\ anmPos' = anmRead.quats_offset + 12 + 16 * Max(quat_count, 0)
                /\ anmPc' = "read_frames" /\ anmErr' = anmErr
    /\ UNCHANGED <<anmIn, anmLoop, anmPal, anmJointData, anmFile, anmOffsets, anmLast,
                   anmOthers>>

\* lines 205-222: the frame records, read and resolved against the palettes
\* one at a time: the first record that is cut short (its 10 bytes of hash
\* and indices; the 2 bytes of padding are skipped by a seek) or that holds
\* an index outside a palette raises
AnmReadFrames ==
    /\ anmPc = "read_frames"
    /\ LET f == anmRead.file
           n == anmRead.frame_count * anmRead.track_count
           rpos(k) == anmRead.frames_offset + 12 + 12 * (k - 1)
           rec(k) == [f |-> (k - 1) \div anmRead.track_count,
                      joint_hash |-> DecU32(ReadAt(f, rpos(k), 4)),
                      trans_idx |-> DecU16(ReadAt(f, rpos(k) + 4, 2)),
                      scale_idx |-> DecU16(ReadAt(f, rpos(k) + 6, 2)),
                      rot_idx |-> DecU16(ReadAt(f, rpos(k) + 8, 2))]
           short(k) == rpos(k) + 10 > Len(f)
           inrange(r) == /\ r.trans_idx < Len(anmRead.vec_palette)
                         /\ r.scale_idx < Len(anmRead.vec_palette)
                         /\ r.rot_idx < Len(anmRead.quat_palette)
           failing == { k \in 1..n : short(k) \/ ~inrange(rec(k)) }
           first == CHOOSE k \in failing : \A j \in failing : k <= j
           raise(e) == /\ anmPc' = "raised" /\ anmErr' = e
                       /\ UNCHANGED <<anmRead, anmPos>>
       IN  IF anmRead.frames_offset + 12 < 0 THEN raise("OSError")
           ELSE IF failing # {}
           THEN raise(IF short(first) THEN "struct.error" ELSE "IndexError")
           ELSE /\ anmRead' = [anmRead EXCEPT !.records = [k \in 1..n |->
                      [f |-> rec(k).f, joint_hash |-> rec(k).joint_hash,
                       ids |-> <<rec(k).trans_idx, rec(k).scale_idx, rec(k).rot_idx>>,
                       translation |-> anmRead.vec_palette[rec(k).trans_idx + 1],
                       scale |-> anmRead.vec_palette[rec(k).scale_idx + 1],
                       rotation |-> anmRead.quat_palette[rec(k).rot_idx + 1]]]]
                /\ anmPos' = rpos(n) + 12
                /\ anmPc' = "read_done" /\ anmErr' = anmErr
    /\ UNCHANGED <<anmIn, anmLoop, anmPal, anmJointData, anmFile, anmOffsets,
                   anmLast,
                   anmOthers>>

AnmNext ==
    \/ AnmStart \/ AnmCollectBone \/ AnmWriteHeader \/ AnmWritePalettes
    \/ AnmWriteFrames \/ AnmPatch \/ AnmReadHeader \/ AnmReadPalettes \/ AnmReadFrames

(***************************************************************************)
(* Claims on write_anm / read_anm (SpecAnm).                               *)
(***************************************************************************)
\* the frame records write_anm is to emit: frame-major, ascending joint hash
ExpectedRecords ==
    LET hs == SortedHashes(DOMAIN anmJointData)
    IN  [k \in 1..(anmIn.frame_count * Len(hs)) |->
            [f |-> (k - 1) \div Len(hs), joint_hash |-> hs[((k - 1) % Len(hs)) + 1],
             ids |-> anmJointData[hs[((k - 1) % Len(hs)) + 1]][((k - 1) \div Len(hs)) + 1]]]

\* C9: in a file produced by write_anm, after the backpatch: the u32 at
\* offset 12 is the file length; vecsOffset + 12 = 76 is where the vector
\* palette starts; quatsOffset + 12 is where the quaternion palette starts
\* and framesOffset + 12 where the frame records start; and read_anm on the
\* file recovers the palettes and the frameCount x trackCount records with
\* the hashes and indices written.
C9_AnmLayoutAndRecovery ==
    LET n == Len(anmPal.vec_palette)
        m == Len(anmPal.quat_palette)
        tracks == Cardinality(DOMAIN anmJointData)
    IN  /\ anmPc \in {"written", "read_palettes", "read_frames", "read_done"} =>
            /\ DecU32(ReadAt(anmFile, 12, 4)) = Len(anmFile)
            /\ DecI32(ReadAt(anmFile, 52, 4)) + 12 = 76
            /\ \A i \in 1..n :
                  ReadAt(anmFile, 76 + 12 * (i - 1), 12) = VecBytes(anmPal.vec_palette[i])
            /\ DecI32(ReadAt(anmFile, 56, 4)) + 12 = 76 + 12 * n
            /\ \A i \in 1..m :
                  ReadAt(anmFile, 76 + 12 * n + 16 * (i - 1), 16)
                     = QuatBytes(anmPal.quat_palette[i])
            /\ DecI32(ReadAt(anmFile, 60, 4)) + 12 = 76 + 12 * n + 16 * m
            /\ Len(anmFile) = 76 + 12 * n + 16 * m + 12 * anmIn.frame_count * tracks
        /\ (anmIn.has_action /\ anmRead.file \in {<<>>, anmFile})
               => anmPc \notin {"raised", "other_format"}
        /\ (anmPc \in {"read_frames", "read_done"} /\ anmRead.file = anmFile) =>
            /\ anmRead.vec_palette = anmPal.vec_palette
            /\ anmRead.quat_palette = anmPal.quat_palette
        /\ (anmPc = "read_done" /\ anmRead.file = anmFile) =>
            /\ Len(anmRead.records) = anmIn.frame_count * tracks
            /\ [k \in 1..Len(anmRead.records) |->
                   [f |-> anmRead.records[k].f, joint_hash |-> anmRead.records[k].joint_hash,
                    ids |-> anmRead.records[k].ids]] = ExpectedRecords

\* C9 witness: two bones with different hashes over two frames, three
\* vectors and two quaternions in the palettes, read back in full
C9_Witness ==
    /\ anmPc = "read_done" /\ anmRead.file = anmFile
    /\ Len(anmRead.records) = 4 /\ Len(anmRead.vec_palette) = 3
    /\ Len(anmRead.quat_palette) = 2
    /\ anmRead.records[4].ids = <<2, 1, 1>>

\* the rounded keys of lines 37 and 45
VecKey(v) == <<Round6(v[1]), Round6(v[2]), Round6(v[3])>>
QuatKey(q) == <<Round6(q.x), Round6(q.y), Round6(q.z), Round6(q.w)>>

\* a palette and its map agree: the keys of the map are the rounded keys of
\* the entries, and each key maps to the one entry that has it
PaletteMatchesMap(palette, map, Key(_)) ==
    /\ DOMAIN map = { Key(palette[i]) : i \in 1..Len(palette) }
    /\ \A i \in 1..Len(palette) : map[Key(palette[i])] = i - 1

\* the number of palette entries the values vs add when none of keys is held
NewKeys(vs, keys) == Cardinality({ vs[i] : i \in 1..Len(vs) } \ keys)

\* C23: palette deduplication in write_anm.  After every pass of the
\* collection loop (add_to_vec_palette for the translation and the scale,
\* add_to_quat_palette for the rotation) each palette holds exactly one entry
\* per distinct 6-decimal rounded key; the entries and the indices held
\* before the pass are unchanged; an entry is appended only for a key not
\* held before and is the first value inserted with that key (for a
\* rotation, the normalised quaternion line 44 inserts); and the index
\* returned for a value is the index of the entry with its rounded key.
C23_PaletteDedup ==
    [][ LET vp == anmPal.vec_palette
            vm == anmPal.vec_map
            qp == anmPal.quat_palette
            qm == anmPal.quat_map
            new == anmPal'
            t == anmLast'.t
            s == anmLast'.s
            r == Normalized(anmLast'.r)
        IN  /\ PaletteMatchesMap(new.vec_palette, new.vec_map, VecKey)
            /\ PaletteMatchesMap(new.quat_palette, new.quat_map, QuatKey)
            /\ SubSeq(new.vec_palette, 1, Len(vp)) = vp
            /\ SubSeq(new.quat_palette, 1, Len(qp)) = qp
            /\ \A k \in DOMAIN vm : k \in DOMAIN new.vec_map /\ new.vec_map[k] = vm[k]
            /\ \A k \in DOMAIN qm : k \in DOMAIN new.quat_map /\ new.quat_map[k] = qm[k]
            /\ anmLoop' # anmLoop =>
                 /\ anmLast'.called
                 /\ Len(new.vec_palette)
                       = Len(vp) + NewKeys(<<VecKey(t), VecKey(s)>>, DOMAIN vm)
                 /\ Len(new.quat_palette) = Len(qp) + NewKeys(<<QuatKey(r)>>, DOMAIN qm)
                 /\ anmLast'.ids = <<new.vec_map[VecKey(t)], new.vec_map[VecKey(s)],
                                     new.quat_map[QuatKey(r)]>>
                 /\ VecKey(t) \notin DOMAIN vm => new.vec_palette[anmLast'.ids[1] + 1] = t
                 /\ VecKey(s) \notin DOMAIN vm \cup {VecKey(t)} =>
                       new.vec_palette[anmLast'.ids[2] + 1] = s
                 /\ QuatKey(r) \notin DOMAIN qm => new.quat_palette[anmLast'.ids[3] + 1] = r
                 /\ VecKey(t) \in DOMAIN vm => anmLast'.ids[1] = vm[VecKey(t)]
                 /\ VecKey(s) \in DOMAIN vm => anmLast'.ids[2] = vm[VecKey(s)]
                 /\ QuatKey(r) \in DOMAIN qm => anmLast'.ids[3] = qm[QuatKey(r)]
            /\ anmLoop' = anmLoop => new = anmPal ]_vars

\* C23 witness: the translation 1.00000012 of the last bone was given the
\* index of the entry 1.0 inserted earlier with the same rounded key, and its
\* rotation of length 1.00000012 the index of the unit quaternion
C23_Witness ==
    /\ anmPc = "collect" /\ anmLast.called
    /\ anmLast.t = <<"1.00000012", "2.1", "-1.0">>
    /\ Len(anmPal.vec_palette) = 3
    /\ anmPal.vec_palette[anmLast.ids[1] + 1] = <<"1.0", "2.1", "-1.0">>
    /\ anmLast.r.w = "1.00000012"
    /\ Len(anmPal.quat_palette) = 2
    /\ anmPal.quat_palette[anmLast.ids[3] + 1].w = "1.0"

\* the hash under which write_anm files the bone at position b (lines 141-143)
BoneHash(b) == Elf(CleanName(anmIn.bones[b]))

\* C24: write_anm output is dense.  In the collection loop the triple of a
\* bone is stored as frame f_idx of its track exactly when no earlier pose
\* bone has the same hash, and is dropped otherwise; once the loop is over
\* every track of joint_data holds frame_count triples, the track count in
\* the header (offset 28) is the number of distinct bone-name hashes, and
\* every frame record written holds the stored triple of its track and
\* frame, never the (0, 0, 0) fallback.
C24_DenseOutput ==
    [][ LET jd == anmJointData'
            hs == SortedHashes(DOMAIN jd)
            b == anmLoop.bone
            f == anmLoop.f_idx
            frames_at == 76 + 12 * Len(anmPal'.vec_palette) + 16 * Len(anmPal'.quat_palette)
        IN  /\ anmLoop' # anmLoop =>
                 IF \A j \in 1..(b - 1) : BoneHash(j) # BoneHash(b)
                 THEN /\ BoneHash(b) \in DOMAIN jd
                      /\ Len(jd[BoneHash(b)]) = f + 1
                      /\ jd[BoneHash(b)][f + 1] = anmLast'.ids
                      /\ \A h \in DOMAIN anmJointData :
                            h # BoneHash(b) => jd[h] = anmJointData[h]
                 ELSE jd = anmJointData
            /\ anmLoop' = anmLoop => jd = anmJointData
            /\ anmPc' \in {"palettes", "frames", "patch", "written"} =>
                 /\ \A h \in DOMAIN jd : Len(jd[h]) = anmIn.frame_count
                 /\ DOMAIN jd = { BoneHash(j) : j \in 1..Len(anmIn.bones) }
                 /\ DecU32(ReadAt(anmFile', 28, 4)) = Cardinality(DOMAIN jd)
            /\ anmPc' \in {"patch", "written"} =>
                 \A f_idx \in 0..(anmIn.frame_count - 1), k \in 1..Len(hs) :
                    ReadAt(anmFile', frames_at + 12 * (f_idx * Len(hs) + k - 1), 12)
                       = U32LE(hs[k]) \o U16LE(jd[hs[k]][f_idx + 1][1])
                         \o U16LE(jd[hs[k]][f_idx + 1][2])
                         \o U16LE(jd[hs[k]][f_idx + 1][3]) \o U16LE(0) ]_vars

\* C24 witness: bones R and R.001 share the hash of "R"; the file of two
\* frames is written with one track, which holds the triples of R in both
\* frames, while the translations of R.001 are in the palette (entries 2
\* and 3) and in no frame record
C24_Witness ==
    /\ anmPc = "written"
    /\ anmIn.bones = << <<82>>, <<82, 46, 48, 48, 49>> >>
    /\ anmIn.frame_count = 2
    /\ DecU32(ReadAt(anmFile, 28, 4)) = 1
    /\ anmJointData[Elf(<<82>>)] = << <<0, 1, 0>>, <<0, 1, 0>> >>
    /\ Len(anmPal.vec_palette) = 3 /\ Len(anmPal.quat_palette) = 2

(***************************************************************************)
(* Python float arithmetic: IEEE 754 binary64, every operation rounded to  *)
(* 53 significant bits, ties to even.  A non-negative float is held as     *)
(* [m, e], the value m * 2^e, with m a natural number of any size held as  *)
(* its base-32768 digits, lowest first (<<>> is 0).                        *)
(***************************************************************************)
RECURSIVE BigOfInt(_)
BigOfInt(n) == IF n = 0 THEN <<>> ELSE <<n % 32768>> \o BigOfInt(n \div 32768)

RECURSIVE BigToInt(_)
BigToInt(a) == IF a = <<>> THEN 0 ELSE Head(a) + 32768 * BigToInt(Tail(a))

RECURSIVE BigTrim(_)
BigTrim(a) ==
    IF a = <<>> \/ a[Len(a)] # 0 THEN a ELSE BigTrim(SubSeq(a, 1, Len(a) - 1))

RECURSIVE BigAddC(_, _, _)
BigAddC(a, b, c) ==
    IF a = <<>> /\ b = <<>> THEN (IF c = 0 THEN <<>> ELSE <<c>>)
    ELSE LET x == (IF a = <<>> THEN 0 ELSE Head(a)) + (IF b = <<>> THEN 0 ELSE Head(b)) + c
         IN  <<x % 32768>> \o BigAddC(IF a = <<>> THEN a ELSE Tail(a),
                                      IF b = <<>> THEN b ELSE Tail(b), x \div 32768)
BigAdd(a, b) == BigAddC(a, b, 0)

\* a * d + c for a digit d
RECURSIVE BigMulSmall(_, _, _)
BigMulSmall(a, d, c) ==
    IF a = <<>> THEN (IF c = 0 THEN <<>> ELSE <<c>>)
    ELSE LET x == Head(a) * d + c
         IN  <<x % 32768>> \o BigMulSmall(Tail(a), d, x \div 32768)

RECURSIVE BigMul(_, _)
BigMul(a, b) ==
    IF a = <<>> \/ b = <<>> THEN <<>>
    ELSE BigAdd(BigTrim(BigMulSmall(a, Head(b), 0)),
                BigTrim(<<0>> \o BigMul(a, Tail(b))))

\* quotient and remainder of a by a digit d, the higher digits first
BigDivDigit(hi, x, d) ==
    [q |-> <<(hi.r * 32768 + x) \div d>> \o hi.q, r |-> (hi.r * 32768 + x) % d]
RECURSIVE BigDivSmall(_, _)
BigDivSmall(a, d) ==
    IF a = <<>> THEN [q |-> <<>>, r |-> 0]
    ELSE BigDivDigit(BigDivSmall(Tail(a), d), Head(a), d)

\* a * 2^k and floor(a / 2^k)
BigShl(a, k) ==
    IF a = <<>> THEN a ELSE Zeros(k \div 15) \o BigMulSmall(a, Pow2(k % 15), 0)
BigShr(a, k) ==
    BigTrim(BigDivSmall(SubSeq(a, k \div 15 + 1, Len(a)), Pow2(k % 15)).q)

RECURSIVE BitLen(_)
BitLen(n) == IF n = 0 THEN 0 ELSE 1 + BitLen(n \div 2)
BigBitLen(a) == IF a = <<>> THEN 0 ELSE 15 * (Len(a) - 1) + BitLen(a[Len(a)])
BigOdd(a) == a # <<>> /\ a[1] % 2 = 1

\* floor(a / 2^k), one more when the part cut off is above a half or is a
\* half and the floor is odd
BigShrNearestEven(a, k) ==
    IF k = 0 THEN a
    ELSE LET q == BigShr(a, k)
             half == BigShr(a, k - 1)
             up == BigOdd(half) /\ (BigShl(half, k - 1) # a \/ BigOdd(q))
         IN  IF up THEN BigAdd(q, <<1>>) ELSE q

\* the float nearest to m * 2^e
F64Round(m, e) ==
    LET k == BigBitLen(m) - 53
    IN  IF k <= 0 THEN [m |-> m, e |-> e]
        ELSE [m |-> BigShrNearestEven(m, k), e |-> e + k]

F64OfInt(n) == [m |-> BigOfInt(n), e |-> 0]

\* a * b and a + b
F64Mul(a, b) == F64Round(BigMul(a.m, b.m), a.e + b.e)
F64Add(a, b) ==
    LET e == Min(a.e, b.e)
    IN  F64Round(BigAdd(BigShl(a.m, a.e - e), BigShl(b.m, b.e - e)), e)

\* a / d for an integer d given as digits whose product it is: the
\* quotient of a.m * 2^72 is longer than 53 bits, so a last bit that tells
\* whether a remainder was left is enough to round it
RECURSIVE BigDivFactors(_, _)
BigDivFactors(qr, factors) ==
    IF factors = <<>> THEN qr
    ELSE LET d == BigDivSmall(qr.q, Head(factors))
         IN  BigDivFactors([q |-> BigTrim(d.q), r |-> IF d.r # 0 THEN 1 ELSE qr.r],
                           Tail(factors))
F64Div(a, factors) ==
    LET d == BigDivFactors([q |-> BigShl(a.m, 72), r |-> 0], factors)
    IN  F64Round(BigAdd(BigShl(d.q, 1), BigOfInt(d.r)), a.e - 73)

\* int(round(x)): round() of a float goes to the nearest integer, a half to
\* the even one
F64RoundToInt(x) ==
    IF x.e >= 0 THEN BigToInt(BigShl(x.m, x.e))
    ELSE BigToInt(BigShrNearestEven(x.m, -x.e))

(***************************************************************************)
(* Compressed ANM reader: the 'r3d2canm' branch of io/import_anm.py        *)
(* read_anm.  max_time is held in half seconds and fps as an integer, both *)
(* exact as floats.                                                        *)
(***************************************************************************)
\* line 77: max_time as read by bs.read_float
MaxTime(max_time_halves) == [m |-> BigOfInt(max_time_halves), e |-> -1]

\* lines 78-79: anm.duration = max_time + 1.0 / anm.fps;
\* anm.frame_count = int(round(anm.duration * anm.fps))
CanmFrameCount(max_time_halves, fps) ==
    LET duration == F64Add(MaxTime(max_time_halves), F64Div(F64OfInt(1), <<fps>>))
    IN  F64RoundToInt(F64Mul(duration, F64OfInt(fps)))

\* lines 109-110: time = compressed_time / 65535.0 * max_time;
\* frame_id = int(round(time * anm.fps)); 65535 = 255 * 257
CanmFrameId(compressed_time, max_time_halves, fps) ==
    LET time == F64Mul(F64Div(F64OfInt(compressed_time), <<255, 257>>),
                       MaxTime(max_time_halves))
    IN  F64RoundToInt(F64Mul(time, F64OfInt(fps)))

\* lines 37-47 of decompress_quat: max_index and the 15-bit fields of a, b, c
QuatFields(v) ==
    LET first == v[1] + 256 * v[2]
        second == v[3] + 256 * v[4]
        third == v[5] + 256 * v[6]
    IN  [max_index |-> (third \div 8192) % 4,
         a |-> (second \div 16384) + 4 * (third % 8192),
         b |-> (first \div 32768) + 2 * (second % 16384),
         c |-> first % 32768]

\* lines 122-125, 129-132: (max - min) / 65535.0 * (v[k] | (v[k+1] << 8)) + min,
\* for ranges whose width is a multiple of 65535
Dequantize(range, v) ==
    [k \in 1..3 |-> ((range.max - range.min) \div 65535) * (v[2 * k - 1] + 256 * v[2 * k])
                    + range.min]

CanmTransforms == { <<2, 1, 4, 3, 6, 5>>, <<0, 0, 0, 128, 255, 127>> }
CanmTimes == {0, 32768, 65535}
CanmFps == {0, 1, 13, 30}

\* the roundings of the inputs of CanmInit, computed once
FrameCountTable ==
    [h \in 0..MaxTimeHalves, fps \in CanmFps \ {0} |-> CanmFrameCount(h, fps)]
FrameIdTable ==
    [ct \in CanmTimes, h \in 0..MaxTimeHalves, fps \in CanmFps \ {0} |->
        CanmFrameId(ct, h, fps)]
FrameCountOf(h, fps) ==
    IF <<h, fps>> \in DOMAIN FrameCountTable THEN FrameCountTable[h, fps]
    ELSE CanmFrameCount(h, fps)
FrameIdOf(ct, h, fps) ==
    IF <<ct, h, fps>> \in DOMAIN FrameIdTable THEN FrameIdTable[ct, h, fps]
    ELSE CanmFrameId(ct, h, fps)
CanmHashes == <<Elf(<<82>>), Elf(<<97, 98>>)>>
\* ANMPose(): a component is <<>> while None and <<value>> once set
NoPose == [translation |-> <<>>, rotation |-> <<>>, scale |-> <<>>]
NoEntry == [compressed_time |-> 0, bits |-> 0, compressed_transform |-> <<>>]

\* mutant: the pose record started afresh by every entry
ApplyEntry_FreshPose(pose, transform_type, v, in) ==
    CASE transform_type = 0 -> [NoPose EXCEPT !.rotation = <<QuatFields(v)>>]
      [] transform_type = 1 -> [NoPose EXCEPT !.translation = <<Dequantize(in.translation, v)>>]
      [] transform_type = 2 -> [NoPose EXCEPT !.scale = <<Dequantize(in.scale, v)>>]
      [] OTHER -> NoPose
\* lines 118-133: the component of the entry's transform type is set on the pose
ApplyEntry(pose, transform_type, v, in) ==
    CASE transform_type = 0 -> [pose EXCEPT !.rotation = <<QuatFields(v)>>]
      [] transform_type = 1 -> [pose EXCEPT !.translation = <<Dequantize(in.translation, v)>>]
      [] transform_type = 2 -> [pose EXCEPT !.scale = <<Dequantize(in.scale, v)>>]
      [] OTHER -> pose

CanmInit ==
    /\ canmPc = "start"
    /\ \E jc \in 1..2, n \in 0..MaxCanmEntries, mt \in 0..MaxTimeHalves, fps \in CanmFps :
          canmIn = [joint_count |-> jc, frame_count |-> n, max_time_halves |-> mt,
                    fps |-> fps, translation |-> [min |-> -65535, max |-> 65535],
                    scale |-> [min |-> 0, max |-> 65535]]
    /\ canmErr = "none"
    /\ canmI = 0
    /\ canmAnm = [frame_count |-> 0, tracks |-> <<>>]
    /\ canmLast = NoEntry

\* lines 71-98: the header; 1.0 / anm.fps raises for fps = 0
CanmReadHeader ==
    /\ canmPc = "start"
    /\ IF canmIn.fps = 0
       THEN canmPc' = "raised" /\ canmErr' = "ZeroDivisionError" /\ canmAnm' = canmAnm
       ELSE /\ canmAnm' = [frame_count |-> FrameCountOf(canmIn.max_time_halves, canmIn.fps),
                           tracks |-> [j \in 1..canmIn.joint_count |->
                                          [joint_hash |-> CanmHashes[j], poses |-> <<>>]]]
            /\ canmPc' = "frames" /\ canmErr' = canmErr
    /\ UNCHANGED <<canmIn, canmI, canmLast, canmOthers>>

\* lines 101-133: one pass of the loop over the compressed frames
CanmReadEntry ==
    /\ canmPc = "frames" /\ canmI < canmIn.frame_count
    /\ canmI' = canmI + 1
    /\ \E compressed_time \in CanmTimes, ty \in 0..3, jx \in 0..1,
          compressed_transform \in CanmTransforms :
          LET bits == ty * 16384 + jx
              joint_idx == bits % 16384
              transform_type == bits \div 16384
              frame_id == FrameIdOf(compressed_time, canmIn.max_time_halves, canmIn.fps)
              poses == canmAnm.tracks[joint_idx + 1].poses
              pose == IF frame_id \in DOMAIN poses THEN poses[frame_id] ELSE NoPose
              set == ApplyEntry(pose, transform_type, compressed_transform, canmIn)
          IN  /\ canmLast' = [compressed_time |-> compressed_time, bits |-> bits,
                               compressed_transform |-> compressed_transform]
              /\ IF joint_idx >= canmIn.joint_count
                 THEN canmAnm' = canmAnm
                 ELSE canmAnm' = [canmAnm EXCEPT !.tracks[joint_idx + 1].poses =
                                     [k \in DOMAIN poses \cup {frame_id} |->
                                         IF k = frame_id THEN set ELSE poses[k]]]
    /\ UNCHANGED <<canmPc, canmIn, canmErr, canmOthers>>

CanmDone ==
    /\ canmPc = "frames" /\ canmI = canmIn.frame_count
    /\ canmPc' = "done"
    /\ UNCHANGED <<canmIn, canmErr, canmI, canmAnm, canmLast, canmOthers>>

CanmNext == CanmReadHeader \/ CanmReadEntry \/ CanmDone

(***************************************************************************)
(* Claims on the compressed reader (SpecCanm).                             *)
(***************************************************************************)
\* C10 (as claimed): every frame key k stored in a track's pose map satisfies
\* 0 <= k < frame_count, for every maxTime >= 0, fps > 0 and compressedTime,
\* half-integer products included.
C10_FrameKeysInRange ==
    \A j \in DOMAIN canmAnm.tracks :
        \A k \in DOMAIN canmAnm.tracks[j].poses : 0 <= k /\ k < canmAnm.frame_count

\* the pose a track holds for a frame, all components absent when it has none
PoseAt(anm, j, f) ==
    IF f \in DOMAIN anm.tracks[j].poses THEN anm.tracks[j].poses[f] ELSE NoPose

\* C11: entries resolving to the same joint and frame accumulate into one
\* pose record.  Every pass of the loop sets, on the pose of the entry's joint
\* and frame, the component of the entry's transform type to the entry's
\* value and leaves the pose's other components, and every other pose, as
\* they were; an entry whose joint index is out of range changes nothing.  So
\* each component is absent or the value of the last entry of its type.
C11_EntriesAccumulate ==
    [][canmI' = canmI + 1 =>
        LET e == canmLast'
            jx == e.bits % 16384
            ty == e.bits \div 16384
            f == FrameIdOf(e.compressed_time, canmIn.max_time_halves, canmIn.fps)
            was == PoseAt(canmAnm, jx + 1, f)
            now == PoseAt(canmAnm', jx + 1, f)
        IN  IF jx >= canmIn.joint_count THEN canmAnm' = canmAnm
            ELSE /\ f \in DOMAIN canmAnm'.tracks[jx + 1].poses
                 /\ now.rotation = IF ty = 0 THEN <<QuatFields(e.compressed_transform)>>
                                   ELSE was.rotation
                 /\ now.translation =
                       IF ty = 1 THEN <<Dequantize(canmIn.translation, e.compressed_transform)>>
                       ELSE was.translation
                 /\ now.scale = IF ty = 2 THEN <<Dequantize(canmIn.scale, e.compressed_transform)>>
                                ELSE was.scale
                 /\ \A j \in 1..canmIn.joint_count :
                       /\ DOMAIN canmAnm'.tracks[j].poses
                             = DOMAIN canmAnm.tracks[j].poses
                               \cup (IF j = jx + 1 THEN {f} ELSE {})
                       /\ \A g \in DOMAIN canmAnm.tracks[j].poses :
                             (j # jx + 1 \/ g # f)
                                => canmAnm'.tracks[j].poses[g] = canmAnm.tracks[j].poses[g]
    ]_vars

\* C11 witness: a translation entry has just been merged into a pose that
\* already held a rotation, and both are present
C11_Witness ==
    /\ canmPc = "frames" /\ canmI = 2 /\ canmLast.bits = 16384
    /\ 0 \in DOMAIN canmAnm.tracks[1].poses
    /\ canmAnm.tracks[1].poses[0].rotation = <<QuatFields(<<2, 1, 4, 3, 6, 5>>)>>
    /\ canmAnm.tracks[1].poses[0].translation = << <<-65535, 1, -1>> >>
    /\ canmAnm.tracks[1].poses[0].scale = <<>>

\* C19 (as claimed): structurally invalid input ends the whole read: once
\* read_anm has met a frame entry whose 14-bit joint index is not below the
\* joint count, it has failed instead of skipping the entry (and likewise
\* decompress_dds_bytes on a payload shorter than its header requires).
C19_BadJointIndexIsTerminal ==
    (canmLast # NoEntry /\ canmLast.bits % 16384 >= canmIn.joint_count)
        => canmPc = "raised"

(***************************************************************************)
(* Hash.elf applied to a name (utils/binary_utils.py).  A name is a        *)
(* sequence of code points.                                                *)
(***************************************************************************)
\* the names hashed: all short names over a few characters in both cases,
\* names long enough to reach bits 28..31, names whose fourth character
\* carries the accumulator past 32 bits, and names with letters outside
\* ASCII: A with grave, I with dot above, Greek alpha and sigma
ElfNames ==
    UNION { [1..n -> {65, 97, 90, 122, 95, 15}] : n \in 0..MaxNameLen }
    \cup { <<122, 122, 122, 122, 122, 122, 122, 122>>,
           <<90, 122, 90, 122, 90, 122, 90, 122>>,
           <<82, 95, 87, 101, 97, 112, 111, 110, 49>>,
           <<1048575, 15, 15, 97>>, <<1048575, 15, 15, 65>>,
           <<1048575, 15, 15, 97, 122, 122>>,
           <<192>>, <<82, 192>>, <<304>>, <<913>>, <<931>>,
           <<97, 931>>, <<97, 963>>, <<931, 97>>, <<97, 39, 931>> }

ElfInit ==
    /\ elfPc = "start"
    /\ elfIn \in ElfNames
    /\ elfOut = [value |-> 0, h |-> [hi |-> 0, lo |-> 0]]

\* Hash.elf(s): the value returned and the accumulator h when the loop ends
ElfHash ==
    /\ elfPc = "start"
    /\ elfOut' = [value |-> Elf(elfIn), h |-> ElfLoop([hi |-> 0, lo |-> 0], Lower(elfIn))]
    /\ elfPc' = "done"
    /\ UNCHANGED <<elfIn, elfOthers>>

ElfNext == ElfHash

(***************************************************************************)
(* Claims on Hash.elf (SpecElf).                                           *)
(***************************************************************************)
\* two code points that are the same letter: equal, or one the simple
\* lower-case mapping of the other; names equal up to letter case
CaseVariant(a, b) == a = b \/ a + LowerDelta(a) = b \/ b + LowerDelta(b) = a
SameIgnoringCase(s, t) ==
    Len(s) = Len(t) /\ \A i \in 1..Len(s) : CaseVariant(s[i], t[i])

\* one round of the specified algorithm on a 32-bit accumulator held as two
\* 16-bit halves: h = (h << 4) + c, t = h & 0xF0000000, h ^= t >> 24 when
\* t # 0, h &= ~t, everything modulo 2^32
Elf32Step(h, c) ==
    LET lo == h.lo16 * 16 + c
        hi == (h.hi16 * 16 + (lo \div 65536)) % 65536
        t == hi \div 4096
        l == lo % 65536
    IN  [hi16 |-> hi % 4096,
         lo16 |-> IF t = 0 THEN l
                  ELSE l - ((l \div 16) % 16) * 16 + BitXor((l \div 16) % 16, t) * 16]

RECURSIVE Elf32Loop(_, _)
Elf32Loop(h, s) == IF s = <<>> THEN h ELSE Elf32Loop(Elf32Step(h, Head(s)), Tail(s))

\* C12 (as claimed): for every string, Hash.elf returns what the specified
\* algorithm gives with a 32-bit accumulator on the lower-cased string; the
\* result is below 2^32 and two names that differ only in letter case hash
\* equal.
C12_ElfIs32BitHash ==
    elfPc = "done" =>
        LET h32 == Elf32Loop([hi16 |-> 0, lo16 |-> 0], Lower(elfIn))
        IN  /\ elfOut.value = h32.hi16 * 65536 + h32.lo16
            /\ elfOut.value >= 0 /\ elfOut.value \div 65536 < 65536
            /\ \A t \in ElfNames : SameIgnoringCase(t, elfIn) => Elf(t) = elfOut.value

(***************************************************************************)
(* decompress_quat: io/import_anm.py.  Floats are not computed: a          *)
(* component of the result is named by the 15-bit field it is dequantised  *)
(* from, or as the square root reconstructed from the three fields.        *)
(***************************************************************************)
\* 16-bit words whose bits sit on both sides of every field boundary
QuatWords == {0, 1, 16383, 16384, 32767, 32768, 8191, 8192, 24576, 40960, 57344, 65535}
QuatInputs == { U16LE(f) \o U16LE(s) \o U16LE(t) :
                f \in {0, 1, 32767, 32768, 65535}, s \in {0, 16383, 16384, 32768, 65535},
                t \in QuatWords }

\* a component of the quaternion returned: a dequantised 15-bit field, or the
\* value sqrt(max(0, 1 - (a*a + b*b + c*c))) of the three fields
Stored(q) == [kind |-> "field", of |-> <<q>>]
Reconstructed(a, b, c) == [kind |-> "sqrt", of |-> <<a, b, c>>]

\* mutant: the 4-tuple given to mathutils.Quaternion taken as (x, y, z, w)
decompress_quat_TupleIsXYZW(bytes_data) ==
    LET f == QuatFields(bytes_data)
        a == Stored(f.a)
        b == Stored(f.b)
        c == Stored(f.c)
        d == Reconstructed(f.a, f.b, f.c)
        t == CASE f.max_index = 0 -> <<c, d, a, b>>
               [] f.max_index = 1 -> <<c, a, d, b>>
               [] f.max_index = 2 -> <<c, a, b, d>>
               [] OTHER -> <<d, a, b, c>>
    IN  [x |-> t[1], y |-> t[2], z |-> t[3], w |-> t[4]]

\* decompress_quat(bytes_data); mathutils.Quaternion takes its 4-tuple as (w, x, y, z)
decompress_quat(bytes_data) ==
    LET f == QuatFields(bytes_data)
        a == Stored(f.a)
        b == Stored(f.b)
        c == Stored(f.c)
        d == Reconstructed(f.a, f.b, f.c)
        t == CASE f.max_index = 0 -> <<c, d, a, b>>
               [] f.max_index = 1 -> <<c, a, d, b>>
               [] f.max_index = 2 -> <<c, a, b, d>>
               [] OTHER -> <<d, a, b, c>>
    IN  [w |-> t[1], x |-> t[2], y |-> t[3], z |-> t[4]]

QuatInit ==
    /\ quatPc = "start"
    /\ quatIn \in QuatInputs
    /\ quatOut = <<>>

QuatDecompress ==
    /\ quatPc = "start"
    /\ quatOut' = <<decompress_quat(quatIn)>>
    /\ quatPc' = "done"
    /\ UNCHANGED <<quatIn, quatOthers>>

QuatNext == QuatDecompress

(***************************************************************************)
(* Claims on decompress_quat (SpecQuat).                                   *)
(***************************************************************************)
\* bit k of the 48-bit integer whose little-endian bytes are v, and the
\* n-bit field that starts at bit lo
BitOf(v, k) == (v[(k \div 8) + 1] \div Pow2(k % 8)) % 2
RECURSIVE FieldOf(_, _, _)
FieldOf(v, lo, n) ==
    IF n = 0 THEN 0 ELSE BitOf(v, lo) + 2 * FieldOf(v, lo + 1, n - 1)

\* C13: maxIndex is bits 45-46 and a, b, c are bits 30-44, 15-29, 0-14 of the
\* three little-endian words read as one 48-bit integer; the reconstructed
\* component sits at position maxIndex of (x, y, z, w) and a, b, c fill the
\* other positions in that order.
C13_QuatLayoutAndPlacement ==
    quatPc = "done" =>
        LET q == quatOut[1]
            xyzw == <<q.x, q.y, q.z, q.w>>
            mi == FieldOf(quatIn, 45, 2)
            a == FieldOf(quatIn, 30, 15)
            b == FieldOf(quatIn, 15, 15)
            c == FieldOf(quatIn, 0, 15)
            rest == SelectSeq(<<1, 2, 3, 4>>, LAMBDA p : p # mi + 1)
        IN  /\ xyzw[mi + 1] = Reconstructed(a, b, c)
            /\ xyzw[rest[1]] = Stored(a)
            /\ xyzw[rest[2]] = Stored(b)
            /\ xyzw[rest[3]] = Stored(c)

\* C13 witness: an input with maxIndex 1 and three distinct fields was
\* decompressed, and the reconstructed value is the y component
C13_Witness ==
    /\ quatPc = "done" /\ quatIn = <<1, 0, 255, 63, 0, 160>>
    /\ quatOut[1].y = Reconstructed(0, 32766, 1)
    /\ quatOut[1].x = Stored(0) /\ quatOut[1].z = Stored(32766) /\ quatOut[1].w = Stored(1)
(***************************************************************************)
(* create_armature: io/import_skl.py.  Joint transforms are translations   *)
(* along x, so a matrix is its x translation and the product of two        *)
(* matrices is the sum; Matrix.Identity(4) is 0.                           *)
(***************************************************************************)
\* the joint lists given: forests of up to MaxJoints joints, each with a
\* parent index (-1 for a root) and a local translation
JointForests ==
    UNION { { js \in [1..n -> [parent : -1..(n - 1), tx : 0..1]] :
                \A i \in 1..n : ReachesRoot(js, i - 1, n) }
            : n \in 0..MaxJoints }

ArmInit ==
    /\ armPc = "pass1"
    /\ armJoints \in JointForests
    /\ armI = 0
    /\ armMats = [k \in 1..Len(armJoints) |-> 0]
    /\ armGlobalPos = [k \in 1..Len(armJoints) |-> 0]
    /\ armBones = <<>>

\* lines 124-134: one iteration of the loop of pass 1, on joint armI
ArmPass1 ==
    /\ armPc = "pass1"
    /\ armI < Len(armJoints)
    /\ LET joint == armJoints[armI + 1]
           local_mat == joint.tx
           m == IF joint.parent >= 0 THEN armMats[joint.parent + 1] + local_mat
                ELSE local_mat
       IN  /\ armMats' = [armMats EXCEPT ![armI + 1] = m]
           /\ armGlobalPos' = [armGlobalPos EXCEPT ![armI + 1] = m]
    /\ armI' = armI + 1
    /\ UNCHANGED <<armPc, armJoints, armBones, armOthers>>

\* lines 143-154: passes 2 and 3, a bone per joint with its head at the
\* joint's global position, then the parent links
ArmCreateBones ==
    /\ armPc = "pass1"
    /\ armI >= Len(armJoints)
    /\ armBones' = [k \in 1..Len(armJoints) |->
                       [head |-> armGlobalPos[k], parent |-> armJoints[k].parent]]
    /\ armPc' = "bones"
    /\ UNCHANGED <<armJoints, armI, armMats, armGlobalPos, armOthers>>

ArmNext == ArmPass1 \/ ArmCreateBones

(***************************************************************************)
(* Claims on create_armature (SpecArm).                                    *)
(***************************************************************************)
\* C17 (as claimed): whenever pass 1 computes the global matrix of a joint
\* that has a parent, the parent's global matrix has been computed already,
\* also when the parent's index is greater than the joint's own.
C17_ParentResolvedBeforeChild ==
    [][ (armPc = "pass1" /\ armI' = armI + 1 /\ armJoints[armI + 1].parent >= 0)
            => armJoints[armI + 1].parent < armI ]_vars
(***************************************************************************)
(* BinaryStream read primitives on a file opened 'rb':                     *)
(* utils/binary_utils.py.  bsLast keeps the last call: the primitive, the  *)
(* byte count it asked the file for (0 for read_char_until_zero), the      *)
(* position before the call, whether it raised and what it returned.       *)
(***************************************************************************)
BsFiles == UNION { [1..n -> {0, 65}] : n \in 0..MaxFileLen }

BsInit ==
    /\ bsPc = "ready"
    /\ bsFile \in BsFiles
    /\ bsPos = 0
    /\ bsLast = [op |-> "none", n |-> 0, before |-> 0, raised |-> FALSE, value |-> <<>>]

\* lines 57-58: read_bytes(length) returns stream.read(length)
BsReadBytes ==
    /\ bsPc = "ready"
    /\ \E length \in 0..MaxFileLen :
          LET got == ReadAt(bsFile, bsPos, length)
          IN  /\ bsLast' = [op |-> "read_bytes", n |-> length, before |-> bsPos,
                            raised |-> FALSE, value |-> got]
              /\ bsPos' = bsPos + Len(got)
    /\ UNCHANGED <<bsPc, bsFile, bsOthers>>

\* lines 162-169: read_char_until_zero stops at a zero byte or at end of file
BsReadCharUntilZero ==
    /\ bsPc = "ready"
    /\ LET got == ReadCharUntilZero(bsFile, bsPos)
       IN  /\ bsLast' = [op |-> "read_char_until_zero", n |-> 0, before |-> bsPos,
                         raised |-> FALSE, value |-> got]
           /\ bsPos' = Min(Len(bsFile), bsPos + Len(got) + 1)
    /\ UNCHANGED <<bsPc, bsFile, bsOthers>>

\* lines 65-68, 75-78, 85-88: read_uint16 / read_uint32 / read_float with
\* count = 1: struct.unpack raises struct.error on a short read, after
\* stream.read has consumed what was left
BsReadFixed ==
    /\ bsPc = "ready"
    /\ \E op \in {"read_uint16", "read_uint32", "read_float"} :
          LET size == IF op = "read_uint16" THEN 2 ELSE 4
              raw == ReadAt(bsFile, bsPos, size)
              short == Len(raw) < size
          IN  /\ bsLast' = [op |-> op, n |-> size, before |-> bsPos, raised |-> short,
                            value |-> IF short THEN <<>>
                                      ELSE IF op = "read_uint16" THEN <<DecU16(raw)>>
                                      ELSE IF op = "read_uint32" THEN <<DecU32(raw)>>
                                      ELSE raw]
              /\ bsPos' = bsPos + Len(raw)
              /\ bsPc' = IF short THEN "raised" ELSE "ready"
    /\ UNCHANGED <<bsFile, bsOthers>>

BsNext == BsReadBytes \/ BsReadCharUntilZero \/ BsReadFixed

(***************************************************************************)
(* Claims on the read primitives (SpecBs).                                 *)
(***************************************************************************)
\* the last call needed more bytes than were left: fewer than n bytes for a
\* sized read, no zero byte before end of file for read_char_until_zero
LastReadWasShort ==
    /\ bsLast.op # "none"
    /\ IF bsLast.op = "read_char_until_zero"
       THEN \A k \in (bsLast.before + 1)..Len(bsFile) : bsFile[k] # 0
       ELSE Len(bsFile) - bsLast.before < bsLast.n

\* C18 (as claimed): a read primitive that finds fewer bytes than it needs
\* raises: read_bytes(n) with fewer than n bytes left, read_char_until_zero
\* reaching end of file before a zero byte, and the fixed-width reads.
C18_ShortReadRaises == LastReadWasShort => bsLast.raised
(***************************************************************************)
(* Recent-file history: utils/history.py.  A path is <<directory, file>>;  *)
(* an item of a list is [filepath, filename].  histFile is the JSON file   *)
(* ~/.lol_blender_history.json; histAdded records, per type, the distinct  *)
(* paths given to add_to_history in order of their last call.              *)
(***************************************************************************)
\* the paths imported: six SKN files, two of the same name, and two ANM files
HistPaths == { <<"models", k>> : k \in 1..5 } \cup { <<"backup", 1>> }
HistAnmPaths == { <<"anims", 1>>, <<"anims", 2>> }

\* os.path.basename(filepath)
Basename(filepath) == filepath[Len(filepath)]

HistItem(filepath) == [filepath |-> filepath, filename |-> Basename(filepath)]

\* mutant: an entry with the same path is left in place
RemoveExisting_Keep(history_list, filepath) == history_list

\* lines 98-101: the first item whose filepath equals filepath is removed
RemoveExisting(history_list, filepath) ==
    LET at == { i \in 1..Len(history_list) : history_list[i].filepath = filepath }
    IN  IF at = {} THEN history_list
        ELSE LET i == CHOOSE i \in at : \A j \in at : i <= j
             IN  SubSeq(history_list, 1, i - 1) \o SubSeq(history_list, i + 1, Len(history_list))

\* lines 109-110: while len(history_list) > 5: history_list.remove(0)
TrimOldest(history_list) ==
    IF Len(history_list) > HistoryCap
    THEN SubSeq(history_list, Len(history_list) - HistoryCap + 1, Len(history_list))
    ELSE history_list

\* lines 36-47: the file save_history_json writes
SavedJson(skn_list, anm_list) == [exists |-> TRUE, skn |-> skn_list, anm |-> anm_list]

\* lines 23-34: the lists load_history_json returns
LoadedJson(file) == IF file.exists THEN file ELSE [exists |-> FALSE, skn |-> <<>>, anm |-> <<>>]

\* the paths of a list, in order
PathsOf(history_list) == [i \in 1..Len(history_list) |-> history_list[i].filepath]

\* a session starts with empty lists; the file is absent or was left by an
\* earlier session
HistInit ==
    /\ histSkn = <<>> /\ histAnm = <<>> /\ histLoaded = FALSE
    /\ \E skn \in { <<>>, <<HistItem(<<"models", 1>>)>>,
                    <<HistItem(<<"models", 2>>), HistItem(<<"backup", 1>>)>> },
          anm \in { <<>>, <<HistItem(<<"anims", 1>>)>> }, exists \in BOOLEAN :
          /\ (~exists) => (skn = <<>> /\ anm = <<>>)
          /\ histFile = [exists |-> exists, skn |-> skn, anm |-> anm]
    /\ histLast = [op |-> "none", type |-> "", path |-> <<>>, removed |-> FALSE]
    /\ histAdded = [skn |-> <<>>, anm |-> <<>>]

\* a session without a history file
HistAddInit == HistInit /\ ~histFile.exists

\* lines 86-113: add_to_history(context, filepath, history_type)
AddToHistory(filepath, history_type) ==
    LET history_list == IF history_type = "SKN" THEN histSkn ELSE histAnm
        new == TrimOldest(Append(RemoveExisting(history_list, filepath), HistItem(filepath)))
        keep(s) == SelectSeq(s, LAMBDA p : p # filepath)
    IN  /\ histSkn' = IF history_type = "SKN" THEN new ELSE histSkn
        /\ histAnm' = IF history_type = "SKN" THEN histAnm ELSE new
        /\ histFile' = SavedJson(histSkn', histAnm')
        /\ histLast' = [op |-> "add", type |-> history_type, path |-> filepath,
                         removed |-> RemoveExisting(history_list, filepath) # history_list]
        /\ histAdded' = IF history_type = "SKN"
                        THEN [histAdded EXCEPT !.skn = Append(keep(@), filepath)]
                        ELSE [histAdded EXCEPT !.anm = Append(keep(@), filepath)]
        /\ UNCHANGED <<histLoaded, histOthers>>

HistAdd ==
    \/ \E filepath \in HistPaths : AddToHistory(filepath, "SKN")
    \/ \E filepath \in HistAnmPaths : AddToHistory(filepath, "ANM")

\* lines 145-158: LOL_OT_ClearHistory.execute
HistClear ==
    \E history_type \in {"SKN", "ANM"} :
        /\ histSkn' = IF history_type = "SKN" THEN <<>> ELSE histSkn
        /\ histAnm' = IF history_type = "SKN" THEN histAnm ELSE <<>>
        /\ histFile' = SavedJson(histSkn', histAnm')
        /\ histLast' = [op |-> "clear", type |-> history_type, path |-> <<>>,
                         removed |-> FALSE]
        /\ histAdded' = IF history_type = "SKN" THEN [histAdded EXCEPT !.skn = <<>>]
                        ELSE [histAdded EXCEPT !.anm = <<>>]
        /\ UNCHANGED <<histLoaded, histOthers>>

\* lines 164-174 and 66-84: draw_history_panel; the first draw of the session
\* replaces both lists by those of the file
HistDraw ==
    \E history_type \in {"SKN", "ANM"} :
        /\ IF ~histLoaded
           THEN LET data == LoadedJson(histFile)
                IN  /\ histSkn' = data.skn
                    /\ histAnm' = data.anm
                    /\ histAdded' = [skn |-> PathsOf(data.skn), anm |-> PathsOf(data.anm)]
           ELSE UNCHANGED <<histSkn, histAnm, histAdded>>
        /\ histLoaded' = TRUE
        /\ histLast' = [op |-> "draw", type |-> history_type, path |-> <<>>,
                         removed |-> FALSE]
        /\ UNCHANGED <<histFile, histOthers>>

HistNext == HistAdd \/ HistClear \/ HistDraw

\* add_to_history calls only
HistAddNext == HistAdd

(***************************************************************************)
(* Claims on the history (SpecHistAdd, SpecHist).                          *)
(***************************************************************************)
\* the last n elements of a sequence
LastN(s, n) == IF Len(s) > n THEN SubSeq(s, Len(s) - n + 1, Len(s)) ELSE s

\* C21 (as claimed): after any sequence of add_to_history calls, the list of
\* a type holds the last 10 distinct paths added: never more than 10 entries,
\* and a path leaves only when more than 10 distinct paths came after it.
C21_LastTenDistinctPaths ==
    /\ Len(histSkn) <= 10 /\ Len(histAnm) <= 10
    /\ PathsOf(histSkn) = LastN(histAdded.skn, 10)
    /\ PathsOf(histAnm) = LastN(histAdded.anm, 10)

\* no two entries of a list share a filepath
NoDuplicatePaths(history_list) ==
    \A i, j \in 1..Len(history_list) :
        history_list[i].filepath = history_list[j].filepath => i = j

\* the list of a type in memory, and in a history file
ListOf(history_type, skn_list, anm_list) == IF history_type = "SKN" THEN skn_list ELSE anm_list

\* C29: from an empty list, every add_to_history and clear leaves the lists
\* without duplicate filepaths and the JSON file equal to the lists; after an
\* add the path added is the last entry, and an add of a path already listed
\* moves it to the end and keeps the length.
C29_HistoryListWellFormed ==
    [][ /\ NoDuplicatePaths(histSkn') /\ NoDuplicatePaths(histAnm')
        /\ histLast'.op \in {"add", "clear"} => histFile' = SavedJson(histSkn', histAnm')
        /\ histLast'.op = "clear" => ListOf(histLast'.type, histSkn', histAnm') = <<>>
        /\ histLast'.op = "add" =>
              LET old == ListOf(histLast'.type, histSkn, histAnm)
                  new == ListOf(histLast'.type, histSkn', histAnm')
                  p == histLast'.path
              IN  /\ new # <<>> /\ new[Len(new)] = [filepath |-> p, filename |-> p[Len(p)]]
                  /\ histLast'.removed = (\E i \in 1..Len(old) : old[i].filepath = p)
                  /\ histLast'.removed =>
                        /\ Len(new) = Len(old)
                        /\ PathsOf(new) = SelectSeq(PathsOf(old), LAMBDA q : q # p) \o <<p>>
      ]_vars

\* C29 witness: with three paths listed, the oldest was added again and is
\* now the last entry of three
C29_Witness ==
    /\ histLast = [op |-> "add", type |-> "SKN", path |-> <<"models", 1>>, removed |-> TRUE]
    /\ PathsOf(histSkn) = << <<"models", 2>>, <<"backup", 1>>, <<"models", 1>> >>
    /\ histFile = SavedJson(histSkn, histAnm)

\* C30 (as claimed): in a session that began with empty lists and entries in
\* the file, an add_to_history call keeps in the file every entry it held
\* before the call, except the path added again and what the size cap
\* evicts, whether or not the panel has been drawn yet.
C30_AddKeepsStoredEntries ==
    [][ histLast'.op = "add" =>
          LET before == LoadedJson(histFile)
              t == histLast'.type
              p == histLast'.path
              kept == LastN(RemoveExisting(ListOf(t, before.skn, before.anm), p)
                            \o <<HistItem(p)>>, HistoryCap)
          IN  /\ ListOf(t, histFile'.skn, histFile'.anm) = kept
              /\ t = "SKN" => histFile'.anm = before.anm
              /\ t = "ANM" => histFile'.skn = before.skn
      ]_vars

(***************************************************************************)
(* Whole-image DXT5 encode and decode: LtMAO/Ritoddstex.py                 *)
(* compress_dds_bytes and decompress_dds_bytes on the file it returns.     *)
(* Both pixel buffers are flat lists of floats, four per pixel, rows       *)
(* bottom-up; a texel is known by the offset in the input buffer it was    *)
(* read from, -1 for the (0, 0, 0, 0) padding of an overhanging block.     *)
(* The block codec keeps texel i of a block at place i (lines 684-690 and  *)
(* 294-303), so a block is the sequence of its 16 texels.                  *)
(***************************************************************************)
\* (width + 3) // 4, lines 569-570 and 368-369
BlocksAcross(n) == (n + 3) \div 4

\* line 599: y_bot = height - 1 - y_top
YBot(height, y_top) == height - 1 - y_top

\* mutant: the decoder writes the rows in file order
DestY_NoFlip(height, y) == y
\* line 387: dest_y = height - 1 - y
DestY(height, y) == height - 1 - y

\* lines 594-612: the offset compress_dds_bytes reads texel (px, py) of block
\* (bx, by) from, -1 where it pads
GatherOffset(width, height, bx, by, px, py) ==
    LET y_top == by * 4 + py
        x == bx * 4 + px
        row_start == YBot(height, y_top) * width * 4
    IN  IF y_top >= height THEN -1
        ELSE IF x >= width THEN -1
        ELSE row_start + x * 4

\* lines 589-612: block_pixels of block (bx, by)
GatherBlock(width, height, bx, by) ==
    [k \in 1..16 |-> GatherOffset(width, height, bx, by, (k - 1) % 4, (k - 1) \div 4)]

\* lines 380-399: the writes decompress_dds_bytes makes for block (bx, by),
\* in order: the offset o in output_floats and the texel written there
ScatterBlock(width, height, bx, by, p_block) ==
    LET py(k) == (k - 1) \div 4
        px(k) == (k - 1) % 4
        inside(k) == by * 4 + py(k) < height /\ bx * 4 + px(k) < width
        ks == SelectSeq([k \in 1..16 |-> k], inside)
        o(k) == (DestY(height, by * 4 + py(k)) * width + bx * 4 + px(k)) * 4
    IN  [i \in 1..Len(ks) |-> [o |-> o(ks[i]), texel |-> p_block[ks[i]]]]

ImgInit ==
    /\ imgPc = "compress"
    /\ imgIn \in [width : 1..MaxImgDim, height : 1..MaxImgDim]
    /\ imgBlocks = <<>> /\ imgReads = <<>> /\ imgDecoded = 0 /\ imgWrites = <<>>

\* lines 573-619: one block of compress_dds_bytes, in by-then-bx order
ImgCompressBlock ==
    /\ imgPc = "compress"
    /\ Len(imgBlocks) < BlocksAcross(imgIn.width) * BlocksAcross(imgIn.height)
    /\ LET bw == BlocksAcross(imgIn.width)
           block == GatherBlock(imgIn.width, imgIn.height,
                                Len(imgBlocks) % bw, Len(imgBlocks) \div bw)
       IN  /\ imgBlocks' = Append(imgBlocks, block)
           /\ imgReads' = imgReads \o SelectSeq(block, LAMBDA t : t # -1)
    /\ UNCHANGED <<imgPc, imgIn, imgDecoded, imgWrites, imgOthers>>

\* line 621: the file is returned and handed to decompress_dds_bytes, which
\* finds 'DDS ', 'DXT5', the height and the width (lines 309-335)
ImgCompressReturn ==
    /\ imgPc = "compress"
    /\ Len(imgBlocks) = BlocksAcross(imgIn.width) * BlocksAcross(imgIn.height)
    /\ imgPc' = "decompress"
    /\ UNCHANGED <<imgIn, imgBlocks, imgReads, imgDecoded, imgWrites, imgOthers>>

\* lines 371-399: one block of decompress_dds_bytes; the loop stops at the
\* first block the payload does not hold (line 373)
ImgDecompressBlock ==
    /\ imgPc = "decompress"
    /\ imgDecoded < BlocksAcross(imgIn.width) * BlocksAcross(imgIn.height)
    /\ imgDecoded < Len(imgBlocks)
    /\ LET bw == BlocksAcross(imgIn.width)
       IN  imgWrites' = imgWrites \o ScatterBlock(imgIn.width, imgIn.height, imgDecoded % bw,
                                                  imgDecoded \div bw, imgBlocks[imgDecoded + 1])
    /\ imgDecoded' = imgDecoded + 1
    /\ UNCHANGED <<imgPc, imgIn, imgBlocks, imgReads, imgOthers>>

\* line 401
ImgDecompressReturn ==
    /\ imgPc = "decompress"
    /\ ~(/\ imgDecoded < BlocksAcross(imgIn.width) * BlocksAcross(imgIn.height)
         /\ imgDecoded < Len(imgBlocks))
    /\ imgPc' = "done"
    /\ UNCHANGED <<imgIn, imgBlocks, imgReads, imgDecoded, imgWrites, imgOthers>>

ImgNext == ImgCompressBlock \/ ImgCompressReturn \/ ImgDecompressBlock \/ ImgDecompressReturn

\* C27: the vertical flips of compress_dds_bytes and decompress_dds_bytes
\* cancel.  For every width and height from 1 up, multiples of 4 or not,
\* each texel the decoder writes at an offset of the output buffer is the
\* texel the encoder read from the same offset of the input buffer; every
\* offset read or written lies inside the width x height x 4 floats; no
\* output pixel is written twice, and when the decoder returns every pixel
\* has been written.
C27_FlipsCancel ==
    LET floats == imgIn.width * imgIn.height * 4
    IN  /\ \A i \in 1..Len(imgReads) : imgReads[i] >= 0 /\ imgReads[i] + 4 <= floats
        /\ \A i \in 1..Len(imgWrites) :
              /\ imgWrites[i].o >= 0 /\ imgWrites[i].o + 4 <= floats
              /\ imgWrites[i].texel = imgWrites[i].o
        /\ \A i, j \in 1..Len(imgWrites) : i # j => imgWrites[i].o # imgWrites[j].o
        /\ imgPc = "done" =>
              { imgWrites[i].o : i \in 1..Len(imgWrites) }
                 = { 4 * p : p \in 0..(imgIn.width * imgIn.height - 1) }

\* C27 witness: a 5 x 6 image, four blocks of which three overhang, decoded
\* in full: the first texel of the first block is input row 5 (offset 100)
\* and the last texel written is the one of input row 0, column 4
C27_Witness ==
    /\ imgPc = "done"
    /\ imgIn = [width |-> 5, height |-> 6]
    /\ Len(imgBlocks) = 4 /\ imgBlocks[1][1] = 100 /\ imgBlocks[4][2] = -1
    /\ Len(imgWrites) = 30
    /\ imgWrites[1] = [o |-> 100, texel |-> 100]
    /\ imgWrites[30] = [o |-> 16, texel |-> 16]

(***************************************************************************)
(* Export operators: __init__.py ExportSKN.execute, ExportSKL.execute and  *)
(* ExportANM.execute, each calling the save function of its io module.     *)
(* A parameter list is a sequence of [name, has_default]; a call is the    *)
(* number of positional arguments and the set of keyword names.            *)
(***************************************************************************)
\* io/export_skn.py line 191
SknSaveParams ==
    << [name |-> "operator", has_default |-> FALSE],
       [name |-> "context", has_default |-> FALSE],
       [name |-> "filepath", has_default |-> FALSE],
       [name |-> "export_skl_file", has_default |-> TRUE],
       [name |-> "clean_names", has_default |-> TRUE],
       [name |-> "target_armature", has_default |-> TRUE] >>

\* io/export_skl.py line 160
SklSaveParams ==
    << [name |-> "operator", has_default |-> FALSE],
       [name |-> "context", has_default |-> FALSE],
       [name |-> "filepath", has_default |-> FALSE],
       [name |-> "target_armature", has_default |-> TRUE] >>

\* io/export_anm.py line 215
AnmSaveParams ==
    << [name |-> "operator", has_default |-> FALSE],
       [name |-> "context", has_default |-> FALSE],
       [name |-> "filepath", has_default |-> FALSE],
       [name |-> "target_armature", has_default |-> TRUE],
       [name |-> "disable_scaling", has_default |-> TRUE],
       [name |-> "disable_transforms", has_default |-> TRUE] >>

\* __init__.py line 364: five positional arguments and three keywords
SknSaveCall ==
    [positional |-> 5,
     keywords |-> {"target_armature", "disable_scaling", "disable_transforms"}]

\* __init__.py lines 424 and 485: three positional arguments and three keywords
SklSaveCall ==
    [positional |-> 3,
     keywords |-> {"target_armature", "disable_scaling", "disable_transforms"}]

\* Python's binding of a call to a def without *args and **kwargs: no more
\* positional arguments than parameters, every keyword names a parameter not
\* filled positionally, and every parameter without default is filled
Accepts(params, call) ==
    /\ call.positional <= Len(params)
    /\ \A k \in call.keywords :
          \E i \in (call.positional + 1)..Len(params) : params[i].name = k
    /\ \A i \in (call.positional + 1)..Len(params) :
          ~params[i].has_default => params[i].name \in call.keywords

\* the options of an operator (lines 312-336, 381-393, 441-453) and whether
\* the scene lets save succeed
OpInputs ==
    { in \in [operator : {"ExportSKN", "ExportSKL", "ExportANM"},
              export_skl : BOOLEAN, clean_names : BOOLEAN,
              disable_scaling : BOOLEAN, disable_transforms : BOOLEAN,
              target_armature_name : {"", "Armature"}, scene_ok : BOOLEAN] :
         in.operator # "ExportSKN" => in.export_skl /\ in.clean_names }

OpInit ==
    /\ opPc = "execute"
    /\ opIn \in OpInputs
    /\ opResult = "none" /\ opErr = "none"

\* what execute does with the call of save: the result set of save when the
\* call binds, TypeError otherwise
OpCallSave(params, call) ==
    IF Accepts(params, call)
    THEN /\ opPc' = "returned"
         /\ opResult' = IF opIn.scene_ok THEN "FINISHED" ELSE "CANCELLED"
         /\ opErr' = opErr
    ELSE /\ opPc' = "raised"
         /\ opResult' = opResult
         /\ opErr' = "TypeError"

\* __init__.py lines 361-364
ExportSKN_execute ==
    /\ opPc = "execute" /\ opIn.operator = "ExportSKN"
    /\ OpCallSave(SknSaveParams, SknSaveCall)
    /\ UNCHANGED <<opIn, opOthers>>

\* __init__.py lines 421-424
ExportSKL_execute ==
    /\ opPc = "execute" /\ opIn.operator = "ExportSKL"
    /\ OpCallSave(SklSaveParams, SklSaveCall)
    /\ UNCHANGED <<opIn, opOthers>>

\* __init__.py lines 482-485
ExportANM_execute ==
    /\ opPc = "execute" /\ opIn.operator = "ExportANM"
    /\ OpCallSave(AnmSaveParams, SklSaveCall)
    /\ UNCHANGED <<opIn, opOthers>>

OpNext == ExportSKN_execute \/ ExportSKL_execute \/ ExportANM_execute

\* C28 (as claimed): for every combination of operator options,
\* ExportSKN.execute and ExportSKL.execute complete by returning the result
\* set of the save function, FINISHED or CANCELLED: every argument they pass
\* is accepted by export_skn.save / export_skl.save and the call never raises.
C28_ExecuteReturnsSaveResult ==
    opIn.operator \in {"ExportSKN", "ExportSKL"} =>
        /\ opPc # "raised"
        /\ opPc # "execute" => opResult \in {"FINISHED", "CANCELLED"}

(***************************************************************************)
(* Specifications: one per subsystem, the others idle.                     *)
(***************************************************************************)
SklIdle ==
    /\ sklPc = "idle" /\ sklBones = <<>> /\ sklFile = <<>> /\ sklPos = 0
    /\ sklNameOffsets = <<>> /\ sklTotalSize = -1
    /\ sklHdr = [joint_count |-> 0, influence_count |-> 0, joints_offset |-> 0,
                 influences_offset |-> 0]
    /\ sklJoints = <<>> /\ sklInfluences = <<>>

SknwIdle ==
    /\ sknwPc = "idle" /\ sknwErr = "none" /\ sknwArmature = FALSE /\ sknwSubmeshes = 0
    /\ sknwVertexCount = 0 /\ sknwIndexCount = 0
    /\ sknwDiskBefore = "absent" /\ sknwDisk = "absent"

SknrIdle ==
    /\ sknrPc = "idle" /\ sknrIn = [major |-> 0, idx |-> <<>>, nverts |-> 0]
    /\ sknrFile = <<>> /\ sknrPos = 0
    /\ sknrHdr = [index_count |-> 0, vertex_count |-> 0, vertex_type |-> 0, face |-> 0]
    /\ sknrSubmeshes = <<>> /\ sknrIndices = <<>> /\ sknrVertices = <<>>
    /\ sknrAlloc = [submeshes |-> 0, vertices |-> 0]

DdsIdle ==
    /\ ddsPc = "idle"
    /\ ddsIn = [signature_ok |-> FALSE, dwWidth |-> 0, dwHeight |-> 0, dwMipMapCount |-> 0,
                ddspf |-> RgbPf(0, Zeros(4), Zeros(4), Zeros(4), Zeros(4)), data |-> <<>>]
    /\ ddsErr = "none"
    /\ ddsTex = [format |-> "none", mipmaps |-> FALSE, data |-> <<>>, written |-> FALSE]
    /\ ddsCustom = [custom_rgba_format |-> FALSE, rgba_indices |-> <<-1, -1, -1, -1>>]
    /\ ddsData = [none |-> FALSE, bytes |-> <<>>]
    /\ ddsOut = <<>>

BlkIdle == blkPc = "idle" /\ blkPixels = <<>> /\ blkBytes = <<>> /\ blkOut = <<>>

AnmIdle ==
    /\ anmPc = "idle"
    /\ anmIn = [has_action |-> FALSE, bones |-> <<>>, frame_count |-> 1, fps |-> 30]
    /\ anmErr = "none" /\ anmLoop = [f_idx |-> 0, bone |-> 1]
    /\ anmPal = [vec_palette |-> <<>>, vec_map |-> <<>>, quat_palette |-> <<>>,
                 quat_map |-> <<>>]
    /\ anmJointData = <<>> /\ anmFile = <<>> /\ anmPos = 0
    /\ anmOffsets = [quat_offset |-> 0, frame_offset |-> 0]
    /\ anmRead = AnmNoRead
    /\ anmLast = AnmNoLast

CanmIdle ==
    /\ canmPc = "idle"
    /\ canmIn = [joint_count |-> 0, frame_count |-> 0, max_time_halves |-> 0, fps |-> 0,
                 translation |-> [min |-> 0, max |-> 0], scale |-> [min |-> 0, max |-> 0]]
    /\ canmErr = "none" /\ canmI = 0
    /\ canmAnm = [frame_count |-> 0, tracks |-> <<>>]
    /\ canmLast = NoEntry

ElfIdle == elfPc = "idle" /\ elfIn = <<>> /\ elfOut = [value |-> 0, h |-> [hi |-> 0, lo |-> 0]]

QuatIdle == quatPc = "idle" /\ quatIn = <<>> /\ quatOut = <<>>

ArmIdle ==
    /\ armPc = "idle" /\ armJoints = <<>> /\ armI = 0 /\ armMats = <<>>
    /\ armGlobalPos = <<>> /\ armBones = <<>>

BsIdle ==
    /\ bsPc = "idle" /\ bsFile = <<>> /\ bsPos = 0
    /\ bsLast = [op |-> "none", n |-> 0, before |-> 0, raised |-> FALSE, value |-> <<>>]

HistIdle ==
    /\ histSkn = <<>> /\ histAnm = <<>> /\ histLoaded = FALSE
    /\ histFile = [exists |-> FALSE, skn |-> <<>>, anm |-> <<>>]
    /\ histLast = [op |-> "none", type |-> "", path |-> <<>>, removed |-> FALSE]
    /\ histAdded = [skn |-> <<>>, anm |-> <<>>]

ImgIdle ==
    /\ imgPc = "idle" /\ imgIn = [width |-> 1, height |-> 1]
    /\ imgBlocks = <<>> /\ imgReads = <<>> /\ imgDecoded = 0 /\ imgWrites = <<>>

OpIdle ==
    /\ opPc = "idle"
    /\ opIn = [operator |-> "ExportSKN", export_skl |-> TRUE, clean_names |-> TRUE,
               disable_scaling |-> FALSE, disable_transforms |-> FALSE,
               target_armature_name |-> "", scene_ok |-> FALSE]
    /\ opResult = "none" /\ opErr = "none"

\* write_skl followed by read_skl of the file written
InitSkl == SklInit /\ SknwIdle /\ SknrIdle /\ DdsIdle /\ BlkIdle /\ AnmIdle /\ CanmIdle /\ ElfIdle /\ QuatIdle /\ ArmIdle /\ BsIdle /\ HistIdle /\ ImgIdle /\ OpIdle
SpecSkl == InitSkl /\ [][SklNext]_vars

\* write_skn_multi
InitSknW == SknwInit /\ SklIdle /\ SknrIdle /\ DdsIdle /\ BlkIdle /\ AnmIdle /\ CanmIdle /\ ElfIdle /\ QuatIdle /\ ArmIdle /\ BsIdle /\ HistIdle /\ ImgIdle /\ OpIdle
SpecSknW == InitSknW /\ [][SknwNext]_vars

\* read_skn
InitSknR == SknrInit /\ SklIdle /\ SknwIdle /\ DdsIdle /\ BlkIdle /\ AnmIdle /\ CanmIdle /\ ElfIdle /\ QuatIdle /\ ArmIdle /\ BsIdle /\ HistIdle /\ ImgIdle /\ OpIdle
SpecSknR == InitSknR /\ [][SknrNext]_vars

\* dds2tex followed by tex_to_dds_bytes
InitDds == DdsInit /\ SklIdle /\ SknwIdle /\ SknrIdle /\ BlkIdle /\ AnmIdle /\ CanmIdle /\ ElfIdle /\ QuatIdle /\ ArmIdle /\ BsIdle /\ HistIdle /\ ImgIdle /\ OpIdle
SpecDds == InitDds /\ [][DdsNext]_vars

\* compress_dxt5_block_flat followed by decompress_dxt5_block
InitBlk == BlkInit /\ SklIdle /\ SknwIdle /\ SknrIdle /\ DdsIdle /\ AnmIdle /\ CanmIdle /\ ElfIdle /\ QuatIdle /\ ArmIdle /\ BsIdle /\ HistIdle /\ ImgIdle /\ OpIdle
SpecBlk == InitBlk /\ [][BlkNext]_vars

\* write_anm followed by read_anm of the file written
InitAnm == AnmInit /\ SklIdle /\ SknwIdle /\ SknrIdle /\ DdsIdle /\ BlkIdle /\ CanmIdle /\ ElfIdle /\ QuatIdle /\ ArmIdle /\ BsIdle /\ HistIdle /\ ImgIdle /\ OpIdle
SpecAnm == InitAnm /\ [][AnmNext]_vars

\* read_anm of a compressed file
InitCanm == CanmInit /\ SklIdle /\ SknwIdle /\ SknrIdle /\ DdsIdle /\ BlkIdle /\ AnmIdle /\ ElfIdle /\ QuatIdle /\ ArmIdle /\ BsIdle /\ HistIdle /\ ImgIdle /\ OpIdle
SpecCanm == InitCanm /\ [][CanmNext]_vars

\* Hash.elf (utils/binary_utils.py)
InitElf == ElfInit /\ SklIdle /\ SknwIdle /\ SknrIdle /\ DdsIdle /\ BlkIdle /\ AnmIdle /\ CanmIdle /\ QuatIdle /\ ArmIdle /\ BsIdle /\ HistIdle /\ ImgIdle /\ OpIdle
SpecElf == InitElf /\ [][ElfNext]_vars

\* decompress_quat (io/import_anm.py)
InitQuat == QuatInit /\ SklIdle /\ SknwIdle /\ SknrIdle /\ DdsIdle /\ BlkIdle /\ AnmIdle /\ CanmIdle /\ ElfIdle /\ ArmIdle /\ BsIdle /\ HistIdle /\ ImgIdle /\ OpIdle
SpecQuat == InitQuat /\ [][QuatNext]_vars

\* decompress_dxt5_block on blocks not made by the encoder
InitBlkDec == BlkDecInit /\ SklIdle /\ SknwIdle /\ SknrIdle /\ DdsIdle /\ AnmIdle /\ CanmIdle /\ ElfIdle /\ QuatIdle /\ ArmIdle /\ BsIdle /\ HistIdle /\ ImgIdle /\ OpIdle
SpecBlkDec == InitBlkDec /\ [][BlkDecNext]_vars

\* create_armature (io/import_skl.py)
InitArm == ArmInit /\ SklIdle /\ SknwIdle /\ SknrIdle /\ DdsIdle /\ BlkIdle /\ AnmIdle /\ CanmIdle /\ ElfIdle /\ QuatIdle /\ BsIdle /\ HistIdle /\ ImgIdle /\ OpIdle
SpecArm == InitArm /\ [][ArmNext]_vars

\* BinaryStream read primitives (utils/binary_utils.py)
InitBs == BsInit /\ SklIdle /\ SknwIdle /\ SknrIdle /\ DdsIdle /\ BlkIdle /\ AnmIdle /\ CanmIdle /\ ElfIdle /\ QuatIdle /\ ArmIdle /\ HistIdle /\ ImgIdle /\ OpIdle
SpecBs == InitBs /\ [][BsNext]_vars

\* recent-file history (utils/history.py)
InitHist == HistInit /\ SklIdle /\ SknwIdle /\ SknrIdle /\ DdsIdle /\ BlkIdle /\ AnmIdle /\ CanmIdle /\ ElfIdle /\ QuatIdle /\ ArmIdle /\ BsIdle /\ ImgIdle /\ OpIdle
SpecHist == InitHist /\ [][HistNext]_vars

\* add_to_history calls in a session without a history file
InitHistAdd == HistAddInit /\ SklIdle /\ SknwIdle /\ SknrIdle /\ DdsIdle /\ BlkIdle /\ AnmIdle /\ CanmIdle /\ ElfIdle /\ QuatIdle /\ ArmIdle /\ BsIdle /\ ImgIdle /\ OpIdle
SpecHistAdd == InitHistAdd /\ [][HistAddNext]_vars

\* compress_dds_bytes followed by decompress_dds_bytes of its result
InitImg == ImgInit /\ SklIdle /\ SknwIdle /\ SknrIdle /\ DdsIdle /\ BlkIdle /\ AnmIdle /\ CanmIdle /\ ElfIdle /\ QuatIdle /\ ArmIdle /\ BsIdle /\ HistIdle /\ OpIdle
SpecImg == InitImg /\ [][ImgNext]_vars

\* the execute methods of the export operators
InitOp == OpInit /\ SklIdle /\ SknwIdle /\ SknrIdle /\ DdsIdle /\ BlkIdle /\ AnmIdle /\ CanmIdle /\ ElfIdle /\ QuatIdle /\ ArmIdle /\ BsIdle /\ HistIdle /\ ImgIdle
SpecOp == InitOp /\ [][OpNext]_vars

====
